---- MODULE Spec2Model ----
(***************************************************************************)
(* The conversational retry loop of createLlmRetryClient (runPromptLoop),   *)
(* the JSON repair pipeline of createJsonSchemaLlmClient (promptJson,      *)
(* _parseOrFixJson, _validateOrFix, _tryToFixJson) and promptZod of        *)
(* createZodLlmClient on top of it.                                        *)
(*                                                                         *)
(* One behaviour is one logical call.  The caller's options are chosen in  *)
(* Init; the backend's replies and the outcomes of caller-supplied hooks   *)
(* are chosen by the actions.  A step is the code that runs between two    *)
(* suspension points (the awaits on the backend).                          *)
(*                                                                         *)
(* Spec follows the loop and the JSON pipeline on abstract reply texts.    *)
(* Further specifications follow one part each in more detail, with        *)
(* variables of their own: TransportSpec (prompt and executeWithRetry:     *)
(* timers and the abort signal), ParseSpec (_parseOrFixJson on texts       *)
(* spelled out piece by piece), HeapSpec (the message arrays as objects),  *)
(* ConcurrentSpec (two calls on one client), RetrySpec (executeWithRetry   *)
(* with any operation and validateAndProcess), ValidateSpec                *)
(* (_validateOrFix with the beforeValidation hook) and TruncateSpec        *)
(* (truncateMessages on message arrays).  While one specification runs,    *)
(* the variables of the others stay idle.                                  *)
(***************************************************************************)
EXTENDS Integers, Sequences, FiniteSets, TLC

VARIABLES
    opts,                 \* the options of the call (retryParams and client params)
    pc,                   \* position of the call
    attempt,              \* loop counter of runPromptLoop
    errs,                 \* heap of the LlmRetryAttemptErrors created so far
    lastError,            \* runPromptLoop's lastError: index into errs, 0 = undefined
    mode,                 \* mode of the current attempt
    currentMessages,      \* conversation sent on the current attempt
    rawResponseForError,  \* raw content captured on the current attempt
    info,                 \* last LlmRetryResponseInfo handed to the validate hook
    llmResponseString,    \* processResponse: the text being processed
    jsonData,             \* processResponse: the parsed data
    calls,                \* every invocation of prompt / fallbackPrompt, in order
    replies,              \* the completions received on the latest answered
                          \* attempt: the main call's, then the fixer calls'
    events,               \* every rejected backend call, exception thrown by the
                          \* validator and exception caught by the loop, in order
    outcome,              \* how the call ended
    thrown,               \* the error the call rejected with
    result                \* the value the call resolved with

loopVars == <<opts, pc, attempt, errs, lastError, mode, currentMessages,
              rawResponseForError, info, llmResponseString, jsonData, calls,
              replies, events, outcome, thrown, result>>

\* prompt and executeWithRetry under one logical call
VARIABLES
    retries,              \* prompt: retries ?? 3, executeWithRetry's maxRetries
    loopMaxRetries,       \* the maxRetries of the loop that calls prompt
    tpc,                  \* position of the call inside prompt
    loopAttempt,          \* the attempt of the loop that called prompt
    attemptNo,            \* loop counter of executeWithRetry (attemptNumber)
    totalDelay,           \* the timer executeWithRetry awaits, in ms
    currentFeedbackForOperation,
    operations,           \* every invocation of the operation, in order
    aborted,              \* the caller's AbortSignal
    promptOutcome,        \* how the logical call ended
    promptThrown          \* what prompt rejected with

transportVars == <<retries, loopMaxRetries, tpc, loopAttempt, attemptNo,
                   totalDelay, currentFeedbackForOperation, operations, aborted,
                   promptOutcome, promptThrown>>

\* _parseOrFixJson applied to one response text
VARIABLES
    responseText,         \* the response: llmResponseString, piece by piece
    noFixer,              \* disableJsonFixer
    parsePc,              \* position inside _parseOrFixJson
    handedToParser,       \* jsonDataToParse as given to JSON.parse
    parseResult,          \* what _parseOrFixJson returned or threw
    reparseResult,        \* the same for the serialization of its result
    fixerRequests         \* backend calls made by _parseOrFixJson

parseVars == <<responseText, noFixer, parsePc, handedToParser, parseResult,
               reparseResult, fixerRequests>>

\* the message arrays of one logical call, as objects
VARIABLES
    heap,                 \* the arrays allocated so far, by address
    callerMessages,       \* address of the array the caller passed
    initialRef,           \* address of runPromptLoop's initialMessages
    conversationRef,      \* address of currentMessages
    heapEntry,            \* the entry point called
    heapMaxRetries,       \* maxRetries
    heapAttempt,          \* loop counter
    heapPc,               \* position of the call
    attemptErrors,        \* the conversation of each LlmRetryAttemptError
    hookInfos             \* the conversation of each info given to validate

heapVars == <<heap, callerMessages, initialRef, conversationRef, heapEntry,
              heapMaxRetries, heapAttempt, heapPc, attemptErrors, hookInfos>>

\* two logical calls on one client
VARIABLES
    client,               \* what createLlmRetryClient closes over
    inputs,               \* the options of each call
    frames,               \* the working variables of runPromptLoop, by frame
    heard,                \* the answers each call has received, in order
    observed              \* its working variables as each call last left them

concurrentVars == <<client, inputs, frames, heard, observed>>

\* executeWithRetry called on its own
VARIABLES
    maxRetriesArg,        \* the argument maxRetries
    fifthArgument,        \* the caller passes a predicate after the feedback
    retryPc,              \* where the call of executeWithRetry stands
    retryAttempt,         \* attemptNumber
    retryDelay,           \* totalDelay while the timer runs
    feedbackForOperation, \* currentFeedbackForOperation
    invocations,          \* the invocations of operation, with how they ended
    validations,          \* the outcomes validateAndProcess resolved with
    retryOutcome          \* what executeWithRetry returned or threw

retryVars == <<maxRetriesArg, fifthArgument, retryPc, retryAttempt, retryDelay,
               feedbackForOperation, invocations, validations, retryOutcome>>

\* _validateOrFix called on its own
VARIABLES
    beforeValidationHook, \* options.beforeValidation and what it does
    verdicts,             \* what the validator makes of each data
    fixerOff,             \* disableJsonFixer
    validatePc,           \* where the call of _validateOrFix stands
    hookCalls,            \* the calls of the hook, with how they ended
    repairRequests,       \* the broken responses handed to _tryToFixJson
    validateOutcome       \* how the call ended, and what the attempt loop
                          \* makes of it

validateVars == <<beforeValidationHook, verdicts, fixerOff, validatePc, hookCalls,
                  repairRequests, validateOutcome>>

\* truncateMessages called on its own
VARIABLES
    truncInput,           \* the argument messages
    truncLimit,           \* the argument limit
    truncPc,              \* called or returned
    truncResult           \* the array returned

truncateVars == <<truncInput, truncLimit, truncPc, truncResult>>

\* the variables of the functions followed on their own
restVars == <<retryVars, validateVars, truncateVars>>

\* the variables outside runPromptLoop's own state
auxVars == <<transportVars, parseVars, heapVars, concurrentVars, restVars>>

\* the variables of the attempt loop and of the layers around it
coreVars == <<loopVars, transportVars, parseVars, heapVars, concurrentVars>>

vars == <<loopVars, auxVars>>

(***************************************************************************)
(* Bounds                                                                  *)
(***************************************************************************)
MaxRetriesBound == 2

\* the largest retries option of prompt
MaxTransportRetries == 2

\* the largest maxRetries of the loop above prompt
MaxLoopRetries == 1

\* the longest response text, in pieces
MaxTextLen == 5

\* the largest maxRetries handed to executeWithRetry
MaxRetryArg == 2

\* the longest array handed to truncateMessages
MaxMessages == 3

(***************************************************************************)
(* JavaScript values                                                       *)
(***************************************************************************)
Null == "<null>"
Undefined == "<undefined>"

\* no call of runPromptLoop is being followed
LoopIdle ==
    /\ opts = Undefined /\ pc = "off" /\ attempt = 0 /\ errs = <<>>
    /\ lastError = 0 /\ mode = Undefined /\ currentMessages = <<>>
    /\ rawResponseForError = Undefined /\ info = Undefined
    /\ llmResponseString = Undefined /\ jsonData = Undefined /\ calls = <<>>
    /\ replies = <<>> /\ events = <<>> /\ outcome = Undefined
    /\ thrown = Undefined /\ result = Undefined

\* no call of prompt is being followed
TransportIdle ==
    /\ retries = 0 /\ loopMaxRetries = 0 /\ tpc = "off" /\ loopAttempt = 0
    /\ attemptNo = 0 /\ totalDelay = 0
    /\ currentFeedbackForOperation = Undefined /\ operations = <<>>
    /\ aborted = FALSE /\ promptOutcome = Undefined /\ promptThrown = Undefined

\* no call of _parseOrFixJson is being followed
ParseIdle ==
    /\ responseText = <<>> /\ noFixer = FALSE /\ parsePc = "off"
    /\ handedToParser = <<>> /\ parseResult = Undefined
    /\ reparseResult = Undefined /\ fixerRequests = 0

\* no array is being followed
HeapIdle ==
    /\ heap = <<>> /\ callerMessages = 0 /\ initialRef = 0
    /\ conversationRef = 0 /\ heapEntry = Undefined /\ heapMaxRetries = 0
    /\ heapAttempt = 0 /\ heapPc = "off" /\ attemptErrors = <<>>
    /\ hookInfos = <<>>

\* no pair of calls is being followed
ConcurrentIdle ==
    /\ client = Undefined /\ inputs = Undefined /\ frames = Undefined
    /\ heard = Undefined /\ observed = Undefined

\* executeWithRetry is not being followed
RetryIdle ==
    /\ maxRetriesArg = 0 /\ fifthArgument = FALSE /\ retryPc = "off"
    /\ retryAttempt = 0 /\ retryDelay = 0 /\ feedbackForOperation = Undefined
    /\ invocations = <<>> /\ validations = <<>> /\ retryOutcome = Undefined

\* _validateOrFix is not being followed
ValidateIdle ==
    /\ beforeValidationHook = Undefined /\ verdicts = Undefined
    /\ fixerOff = FALSE /\ validatePc = "off" /\ hookCalls = <<>>
    /\ repairRequests = <<>> /\ validateOutcome = Undefined

\* truncateMessages is not being followed
TruncateIdle ==
    /\ truncInput = <<>> /\ truncLimit = 0 /\ truncPc = "off" /\ truncResult = <<>>

\* no function is being followed on its own
RestIdle == RetryIdle /\ ValidateIdle /\ TruncateIdle

\* the attempt loop and the layers around it are not being followed
CoreIdle == LoopIdle /\ TransportIdle /\ ParseIdle /\ HeapIdle /\ ConcurrentIdle

\* nothing but runPromptLoop is being followed
AuxIdle == TransportIdle /\ ParseIdle /\ HeapIdle /\ ConcurrentIdle /\ RestIdle

\* JavaScript truthiness of a string-or-null value
Truthy(s) == s \notin {Null, Undefined, ""}

\* JavaScript a || b
OrElse(a, b) == IF Truthy(a) THEN a ELSE b

Msg(role, content) == [role |-> role, content |-> content]

\* the absent value of an error-typed field
NoError == [name |-> Undefined]

\* an Error object; `type' and `rawResponse' are the extra fields of
\* LlmRetryError, `cause', `messages' and `rawResponse' those of LlmFatalError
Err(name, message, type, rawResponse, cause, messages) ==
    [name |-> name, message |-> message, type |-> type,
     rawResponse |-> rawResponse, cause |-> cause, messages |-> messages]

PlainError(message) == Err("Error", message, Undefined, Undefined, NoError, <<>>)

SyntaxError(message) == Err("SyntaxError", message, Undefined, Undefined, NoError, <<>>)

SchemaValidationError(message) ==
    Err("SchemaValidationError", message, Undefined, Undefined, NoError, <<>>)

LlmRetryError(message, type, rawResponse) ==
    Err("LlmRetryError", message, type, rawResponse, NoError, <<>>)

LlmFatalError(message, cause, messages, rawResponse) ==
    Err("LlmFatalError", message, Undefined, rawResponse, cause, messages)

LlmRetryExhaustedError(message, cause) ==
    [name |-> "LlmRetryExhaustedError", message |-> message, cause |-> cause]

LlmRetryAttemptError(message, m, conversation, attemptNumber, error, rawResponse, cause) ==
    [name |-> "LlmRetryAttemptError", message |-> message, mode |-> m,
     conversation |-> conversation, attemptNumber |-> attemptNumber,
     error |-> error, rawResponse |-> rawResponse, cause |-> cause]

(***************************************************************************)
(* Inputs: the caller's messages, the backend's replies, the hooks         *)
(***************************************************************************)
InitialMessages == <<Msg("system", "sys"), Msg("user", "task")>>

\* the system-prompt footer of _getJsonPromptConfig, appended to the first
\* system message
JsonPromptMessages == <<Msg("system", "sys+schema"), Msg("user", "task")>>

\* replies a backend can give to a promptJson conversation
JsonTexts == {"tBad", "tInvalid", "tOk", "tBoom", "  ", "<fence>tOk<fence>"}

\* replies a backend can give to the fixer conversation
FixerTexts == {"CANNOT_FIX", "fBad", "fInvalid", "fOk", "fBoom"}

\* replies to a plain conversation
PlainTexts == {"hello"}

\* a ChatCompletion: choices[0]?.message and its content
Completion(hasMessage, content) == [hasMessage |-> hasMessage, content |-> content]

CompletionsOf(texts) ==
    {Completion(FALSE, Undefined)}
        \cup {Completion(TRUE, c) : c \in {Null, ""} \cup texts}

\* what a backend call can reject with
BackendErrors ==
    { PlainError("network down"),
      PlainError(""),
      LlmFatalError("Simulated Fatal Error", PlainError("Root cause"),
                    <<Msg("user", "test")>>, "{error: bad request}"),
      LlmFatalError("", PlainError("Root cause"), <<Msg("user", "test")>>, Null),
      LlmRetryError("backend feedback", "CUSTOM_ERROR", Undefined) }

\* what a caller-supplied validate hook can reject with
HookErrors ==
    { LlmRetryError("hook feedback", "CUSTOM_ERROR", Undefined),
      LlmRetryError("hook feedback", "CUSTOM_ERROR", "hook raw"),
      PlainError("hook bug"),
      LlmFatalError("hook fatal", PlainError("Root cause"), <<>>, "hook fatal raw") }

Entries == {"promptRetry", "promptTextRetry", "promptJson", "promptZod"}

\* promptZod goes through promptJson with its own validator
IsJsonEntry(entry) == entry \in {"promptJson", "promptZod"}

\* the maxRetries option left out by the caller
Absent == -1

\* const { maxRetries = 3, ... } = options
DefaultMaxRetries == 3

\* the options as the caller passes them
CallerOptions ==
    { o \in [maxRetries : (0..MaxRetriesBound) \cup {Absent}, fallbackPrompt : BOOLEAN,
             entry : Entries, validate : BOOLEAN, disableJsonFixer : BOOLEAN] :
        /\ IsJsonEntry(o.entry) => o.validate
        /\ ~IsJsonEntry(o.entry) => ~o.disableJsonFixer }

\* the destructuring without its default: a missing maxRetries read as 0
Destructure_nodefault(o) ==
    [maxRetries |-> IF o.maxRetries = Absent THEN 0 ELSE o.maxRetries,
     maxRetriesOption |-> o.maxRetries,
     fallbackPrompt |-> o.fallbackPrompt,
     entry |-> o.entry,
     validate |-> o.validate,
     disableJsonFixer |-> o.disableJsonFixer]

\* the options as runPromptLoop destructures them: maxRetries is the local
\* with its default applied, maxRetriesOption what the caller passed
Destructure(o) ==
    [maxRetries |-> IF o.maxRetries = Absent THEN DefaultMaxRetries ELSE o.maxRetries,
     maxRetriesOption |-> o.maxRetries,
     fallbackPrompt |-> o.fallbackPrompt,
     entry |-> o.entry,
     validate |-> o.validate,
     disableJsonFixer |-> o.disableJsonFixer]

Options == { Destructure(o) : o \in CallerOptions }

\* promptRetry / promptTextRetry / promptJson -> runPromptLoop's responseType
ResponseType(entry) == IF entry = "promptRetry" THEN "raw" ELSE "text"

StartMessages(entry) ==
    IF IsJsonEntry(entry) THEN JsonPromptMessages ELSE InitialMessages

RepliesFor(entry) ==
    IF IsJsonEntry(entry) THEN CompletionsOf(JsonTexts) ELSE CompletionsOf(PlainTexts)

(***************************************************************************)
(* runPromptLoop                                                           *)
(***************************************************************************)
NoInfo == [mode |-> Undefined, conversation |-> <<>>, attemptNumber |-> -1]

NoResult == [type |-> Undefined, value |-> Undefined]

Init ==
    /\ opts \in Options
    /\ pc = "loop"
    /\ attempt = 0
    /\ errs = <<>>
    /\ lastError = 0
    /\ mode = "main"
    /\ currentMessages = <<>>
    /\ rawResponseForError = Null
    /\ info = NoInfo
    /\ llmResponseString = Undefined
    /\ jsonData = Undefined
    /\ calls = <<>>
    /\ replies = <<>>
    /\ events = <<>>
    /\ outcome = "pending"
    /\ thrown = NoError
    /\ result = NoResult
    /\ AuxIdle

\* the loop running one attempt too many
LoopCondition_over(att) == att <= opts.maxRetries + 1

\* the loop stopping one attempt early
LoopCondition_under(att) == att < opts.maxRetries

\* for (let attempt = 0; attempt <= maxRetries; attempt++)
LoopCondition(att) == att <= opts.maxRetries

\* the fallback switched to one attempt late
UseFallback_late(att) == opts.fallbackPrompt /\ att > 1

\* const useFallback = !!fallbackPrompt && attempt > 0
UseFallback(att) == opts.fallbackPrompt /\ att > 0

\* const currentPrompt = useFallback ? fallbackPrompt! : prompt
CurrentPrompt(useFallback) == IF useFallback THEN "fallbackPrompt" ELSE "prompt"

\* the mode tag not following the backend
ModeOf_main(useFallback) == "main"

\* const mode = useFallback ? 'fallback' : 'main'
ModeOf(useFallback) == IF useFallback THEN "fallback" ELSE "main"

\* the retry rebuilt from the initial messages instead of the snapshot
constructLlmMessages_fresh(initialMessages, attemptNumber, previousError) ==
    IF attemptNumber = 0
    THEN [throws |-> Undefined, messages |-> initialMessages]
    ELSE IF previousError = 0
    THEN [throws |-> "Invariant violation: previousError is missing for a retry attempt.",
          messages |-> <<>>]
    ELSE IF errs[previousError].error.name # "LlmRetryError"
    THEN [throws |-> "cause must be an instanceof LlmRetryError", messages |-> <<>>]
    ELSE [throws |-> Undefined,
          messages |-> Append(initialMessages,
                              Msg("user", errs[previousError].error.message))]

\* constructLlmMessages; `throws' tells which of its two assertions fired
constructLlmMessages(initialMessages, attemptNumber, previousError) ==
    IF attemptNumber = 0
    THEN [throws |-> Undefined, messages |-> initialMessages]
    ELSE IF previousError = 0
    THEN [throws |-> "Invariant violation: previousError is missing for a retry attempt.",
          messages |-> <<>>]
    ELSE IF errs[previousError].error.name # "LlmRetryError"
    THEN [throws |-> "cause must be an instanceof LlmRetryError", messages |-> <<>>]
    ELSE [throws |-> Undefined,
          messages |-> Append(errs[previousError].conversation,
                              Msg("user", errs[previousError].error.message))]

\* the per-call options as the caller of promptRetry / promptTextRetry
\* passes them: sampling parameters next to the retry settings
CallerRetryOptions ==
    {<<"model", "m1">>, <<"temperature", "0.2">>, <<"maxRetries", "n">>,
     <<"validate", "hook">>, <<"messages", "initial">>}

\* the per-call options as the caller of promptJson / promptZod passes them
CallerJsonOptions ==
    {<<"model", "m1">>, <<"temperature", "0.2">>, <<"maxRetries", "n">>,
     <<"useResponseFormat", "true">>, <<"beforeValidation", "hook">>,
     <<"validator", "fn">>}

\* the keys of a set of options
Without(options, keys) == {o \in options : o[1] \notin keys}

\* promptJson: const { maxRetries, useResponseFormat, beforeValidation,
\* validator, ...restOptions } = options; retryOptions = { ...restOptions,
\* maxRetries, messages, response_format, validate: processResponse }
JsonRetryOptions ==
    Without(CallerJsonOptions,
            {"maxRetries", "useResponseFormat", "beforeValidation", "validator"})
        \cup {<<"maxRetries", "n">>, <<"messages", "final">>,
               <<"response_format", "json_object">>, <<"validate", "processResponse">>}

\* the retryParams runPromptLoop is called with
RetryParams(entry) ==
    IF IsJsonEntry(entry) THEN JsonRetryOptions ELSE CallerRetryOptions

\* the destructuring forwarding the retry settings to the backend too
RestOptions_all(retryParams) == Without(retryParams, {"messages"})

\* const { maxRetries = 3, validate, messages: initialMessages,
\* ...restOptions } = retryParams
RestOptions(retryParams) == Without(retryParams, {"maxRetries", "validate", "messages"})

\* _tryToFixJson: { messages, response_format, ...restOptions }
FixerOptions ==
    Without(CallerJsonOptions,
            {"maxRetries", "useResponseFormat", "beforeValidation", "validator"})
        \cup {<<"response_format", "json_object">>}

\* one invocation of a backend function: currentPrompt({ messages:
\* currentMessages, ...restOptions }) or the fixer's prompt(...)
Call(backend, kind, att, messages) ==
    [backend |-> backend, kind |-> kind, attempt |-> att, messages |-> messages,
     options |-> IF kind = "main" THEN RestOptions(RetryParams(opts.entry))
                 ELSE FixerOptions]

\* loop head and the code up to the await on currentPrompt
StartAttempt ==
    /\ pc = "loop"
    /\ LoopCondition(attempt)
    /\ LET useFallback == UseFallback(attempt)
           built == constructLlmMessages(StartMessages(opts.entry), attempt, lastError)
       IN  IF built.throws # Undefined
           THEN /\ outcome' = "error"
                /\ thrown' = PlainError(built.throws)
                /\ pc' = "done"
                /\ UNCHANGED <<mode, currentMessages, rawResponseForError, calls>>
           ELSE /\ mode' = ModeOf(useFallback)
                /\ currentMessages' = built.messages
                /\ rawResponseForError' = Null
                /\ calls' = Append(calls, Call(CurrentPrompt(useFallback), "main",
                                               attempt, built.messages))
                /\ pc' = "awaitPrompt"
                /\ UNCHANGED <<outcome, thrown>>
    /\ UNCHANGED <<opts, attempt, errs, lastError, info, llmResponseString,
                   jsonData, replies, events, result>>
    /\ UNCHANGED auxVars

\* the throw after the loop
ThrowExhausted ==
    /\ pc = "loop"
    /\ ~LoopCondition(attempt)
    /\ outcome' = "exhausted"
    /\ thrown' = LlmRetryExhaustedError(
                     <<"Operation failed after", opts.maxRetries + 1, "attempts.">>,
                     lastError)
    /\ pc' = "done"
    /\ UNCHANGED <<opts, attempt, errs, lastError, mode, currentMessages,
                   rawResponseForError, info, llmResponseString, jsonData,
                   calls, replies, events, result>>
    /\ UNCHANGED auxVars

\* plain errors retried like LlmRetryErrors
IsRetryError_plain(error) == error.name \in {"LlmRetryError", "Error"}

\* error instanceof LlmRetryError
IsRetryError(error) == error.name = "LlmRetryError"

\* the snapshot taken without the assistant's reply
ConversationForError_bare(messages, error, raw) == messages

\* the conversation stored in the LlmRetryAttemptError
ConversationForError(messages, error, raw) ==
    IF Truthy(error.rawResponse)
    THEN Append(messages, Msg("assistant", error.rawResponse))
    ELSE IF Truthy(raw)
    THEN Append(messages, Msg("assistant", raw))
    ELSE messages

\* the attempt error created without { cause: lastError }
NewAttemptError_unlinked(att, m, messages, error, raw, previous) ==
    LlmRetryAttemptError(<<"Attempt", att + 1, "failed:", error.message>>,
                         m,
                         ConversationForError(messages, error, raw),
                         att,
                         error,
                         OrElse(error.rawResponse, raw),
                         0)

\* lastError = new LlmRetryAttemptError(...)
NewAttemptError(att, m, messages, error, raw, previous) ==
    LlmRetryAttemptError(<<"Attempt", att + 1, "failed:", error.message>>,
                         m,
                         ConversationForError(messages, error, raw),
                         att,
                         error,
                         OrElse(error.rawResponse, raw),
                         previous)

\* the fatal error wrapping a fatal error instead of unwrapping it
NewFatalError_nested(error, messages, raw) ==
    LlmFatalError(OrElse(error.message, "An unexpected error occurred during LLM execution"),
                  error,
                  messages,
                  OrElse(raw, OrElse(error.rawResponse, Null)))

\* throw new LlmFatalError(fatalMessage, cause, currentMessages, responseContent)
NewFatalError(error, messages, raw) ==
    LlmFatalError(OrElse(error.message, "An unexpected error occurred during LLM execution"),
                  IF error.name = "LlmFatalError" THEN error.cause ELSE error,
                  messages,
                  OrElse(raw, OrElse(error.rawResponse, Null)))

\* an entry of the reply log: the completion and the call it answers
Reply(completion) == [call |-> Len(calls), completion |-> completion]

\* an entry of the event log: what happened, on which attempt, after how
\* many backend calls
Event(ev, error) ==
    [ev |-> ev, name |-> error.name, error |-> error, at |-> attempt,
     ncalls |-> Len(calls)]

\* the catch block of an attempt, with the loop's attempt++
CatchBlock(error, raw) ==
    /\ IF IsRetryError(error)
       THEN /\ errs' = Append(errs, NewAttemptError(attempt, mode, currentMessages,
                                                    error, raw, lastError))
            /\ lastError' = Len(errs) + 1
            /\ attempt' = attempt + 1
            /\ pc' = "loop"
            /\ UNCHANGED <<outcome, thrown>>
       ELSE /\ outcome' = "fatal"
            /\ thrown' = NewFatalError(error, currentMessages, raw)
            /\ pc' = "done"
            /\ UNCHANGED <<errs, lastError, attempt>>
    /\ UNCHANGED result

\* the result recorded while the loop goes on to the next attempt
Return_continue(value) ==
    /\ outcome' = "success"
    /\ result' = value
    /\ pc' = "loop"
    /\ attempt' = attempt + 1
    /\ UNCHANGED <<errs, lastError, thrown>>

\* return result / return dataToProcess
Return(value) ==
    /\ outcome' = "success"
    /\ result' = value
    /\ pc' = "done"
    /\ UNCHANGED <<errs, lastError, attempt, thrown>>

\* the call stays suspended on a backend call
Suspend(at) ==
    /\ pc' = at
    /\ UNCHANGED <<errs, lastError, attempt, outcome, thrown, result>>

\* currentPrompt rejects
PromptThrows ==
    /\ pc = "awaitPrompt"
    /\ \E error \in BackendErrors :
          /\ CatchBlock(error, rawResponseForError)
          /\ events' = events \o <<Event("reject", error), Event("catch", error)>>
    /\ UNCHANGED <<opts, mode, currentMessages, rawResponseForError, info,
                   llmResponseString, jsonData, calls, replies>>
    /\ UNCHANGED auxVars

(***************************************************************************)
(* createJsonSchemaLlmClient                                               *)
(***************************************************************************)
\* _parseOrFixJson: trim, then take the body of a fenced code block
ExtractJsonText(text) ==
    CASE text = "  " -> ""
      [] text = "<fence>tOk<fence>" -> "tOk"
      [] OTHER -> text

\* JSON.parse: the parsed value, or a SyntaxError
JSONparse(text) ==
    CASE text = "tOk" -> [ok |-> TRUE, data |-> "dOk"]
      [] text = "tInvalid" -> [ok |-> TRUE, data |-> "dInvalid"]
      [] text = "tBoom" -> [ok |-> TRUE, data |-> "dBoom"]
      [] text = "fOk" -> [ok |-> TRUE, data |-> "dOkFixed"]
      [] text = "fInvalid" -> [ok |-> TRUE, data |-> "dInvalidFixed"]
      [] text = "fBoom" -> [ok |-> TRUE, data |-> "dBoomFixed"]
      [] OTHER -> [ok |-> FALSE, data |-> Undefined]

\* JSON.stringify(jsonData, null, 2)
JSONstringify(data) ==
    CASE data = "dOk" -> "sOk"
      [] data = "dInvalid" -> "sInvalid"
      [] data = "dBoom" -> "sBoom"
      [] data = "dOkFixed" -> "sOkFixed"
      [] data = "dInvalidFixed" -> "sInvalidFixed"
      [] data = "dBoomFixed" -> "sBoomFixed"
      [] OTHER -> "null"

\* the validator: returns, throws SchemaValidationError, or throws
\* something else.  promptJson's validator reports data that does not
\* conform with a SchemaValidationError; promptZod's validator is
\* dataExtractionSchema.parse, which reports it with a ZodError
Validator(data) ==
    CASE data \in {"dOk", "dOkFixed"} -> "ok"
      [] data \in {"dInvalid", "dInvalidFixed"} ->
             IF opts.entry = "promptZod" THEN "zod" ELSE "schema"
      [] OTHER -> "other"

ValidatorSchemaError == SchemaValidationError("AJV Validation Error")

ValidatorZodError == Err("ZodError", "Invalid input", Undefined, Undefined, NoError, <<>>)

ValidatorOtherError == PlainError("Database Error")

\* the exception behind a verdict of the validator
ValidatorError(verdict) ==
    CASE verdict = "schema" -> ValidatorSchemaError
      [] verdict = "zod" -> ValidatorZodError
      [] OTHER -> ValidatorOtherError

\* the fixer following the backend of the attempt
FixerPrompt_current(useFallback) == CurrentPrompt(useFallback)

\* _tryToFixJson: const completion = await prompt({...}); prompt is the
\* primary backend destructured from the client's params, whatever
\* backend the attempt loop is using
FixerPrompt(useFallback) == "prompt"

\* _tryToFixJson: the conversation sent to the fixer
FixerMessages(errorDetails) ==
    <<Msg("system", "You are an expert at fixing malformed JSON data"),
      Msg("user", errorDetails)>>

\* _tryToFixJson: what it returns for the fixer's completion
FixedResponse(completion) ==
    IF Truthy(completion.content) /\ completion.content = "CANNOT_FIX"
    THEN Null
    ELSE OrElse(completion.content, Null)

\* processResponse: the catch around _parseOrFixJson
WrapParseError(parseError, text) ==
    IF parseError.name = "SyntaxError"
    THEN LlmRetryError("Error Type: JSON_PARSE_ERROR", "JSON_PARSE_ERROR", text)
    ELSE parseError

\* processResponse: the catch around _validateOrFix
WrapValidationError(validationError, data) ==
    IF validationError.name = "SchemaValidationError"
    THEN LlmRetryError("Error Type: SCHEMA_VALIDATION_ERROR", "CUSTOM_ERROR",
                       JSONstringify(data))
    ELSE validationError

\* _parseOrFixJson / _validateOrFix: if (disableJsonFixer) throw ...
FixerDisabled == opts.disableJsonFixer

\* _validateOrFix, first pass, and what processResponse does with its result
ValidateStage(data, raw) ==
    /\ jsonData' = data
    /\ LET verdict == Validator(data) IN
       CASE verdict = "ok" ->
              /\ Return([type |-> "validated", value |-> data])
              /\ UNCHANGED <<calls, events>>
         [] verdict \in {"other", "zod"} ->
              /\ CatchBlock(WrapValidationError(ValidatorError(verdict), data), raw)
              /\ events' = events \o <<Event("validator", ValidatorError(verdict)),
                                       Event("catch", ValidatorError(verdict))>>
              /\ UNCHANGED calls
         [] verdict = "schema" /\ FixerDisabled ->
              /\ CatchBlock(WrapValidationError(ValidatorSchemaError, data), raw)
              /\ events' = events \o
                     <<Event("validator", ValidatorSchemaError),
                       Event("catch", WrapValidationError(ValidatorSchemaError, data))>>
              /\ UNCHANGED calls
         [] verdict = "schema" /\ ~FixerDisabled ->
              /\ calls' = Append(calls, Call(FixerPrompt(UseFallback(attempt)), "fixer", attempt,
                                             FixerMessages("Schema Validation Error")))
              /\ events' = Append(events, Event("validator", ValidatorSchemaError))
              /\ Suspend("awaitFixValidate")

\* processResponse from its start: _parseOrFixJson up to its first await
ParseStage(text, raw) ==
    /\ llmResponseString' = text
    /\ LET jsonDataToParse == ExtractJsonText(text)
           parsed == JSONparse(jsonDataToParse)
           emptyError == PlainError("LLM returned an empty string.")
           parseError == SyntaxError("Unexpected token")
       IN  IF jsonDataToParse = ""
           THEN /\ CatchBlock(WrapParseError(emptyError, text), raw)
                /\ events' = Append(events, Event("catch", WrapParseError(emptyError, text)))
                /\ UNCHANGED <<calls, jsonData>>
           ELSE IF parsed.ok
           THEN ValidateStage(parsed.data, raw)
           ELSE IF FixerDisabled
           THEN /\ CatchBlock(WrapParseError(parseError, text), raw)
                /\ events' = Append(events, Event("catch", WrapParseError(parseError, text)))
                /\ UNCHANGED <<calls, jsonData>>
           ELSE /\ calls' = Append(calls, Call(FixerPrompt(UseFallback(attempt)), "fixer", attempt,
                                               FixerMessages("JSON Parse Error")))
                /\ Suspend("awaitFixParse")
                /\ UNCHANGED <<events, jsonData>>

\* _parseOrFixJson resumes with the fixer's completion
FixParseReturns ==
    /\ pc = "awaitFixParse"
    /\ \E completion \in CompletionsOf(FixerTexts) :
          LET fixedResponse == FixedResponse(completion)
              parsed == JSONparse(fixedResponse)
              retryError == WrapParseError(SyntaxError("Unexpected token"),
                                           llmResponseString)
          IN  /\ replies' = Append(replies, Reply(completion))
              /\ IF Truthy(fixedResponse) /\ parsed.ok
                 THEN ValidateStage(parsed.data, rawResponseForError)
                 ELSE /\ CatchBlock(retryError, rawResponseForError)
                      /\ events' = Append(events, Event("catch", retryError))
                      /\ UNCHANGED <<calls, jsonData>>
    /\ UNCHANGED <<opts, mode, currentMessages, rawResponseForError, info,
                   llmResponseString>>
    /\ UNCHANGED auxVars

\* the fixer's backend call rejects inside _parseOrFixJson
FixParseThrows ==
    /\ pc = "awaitFixParse"
    /\ \E error \in BackendErrors :
          /\ CatchBlock(WrapParseError(error, llmResponseString), rawResponseForError)
          /\ events' = events \o
                 <<Event("reject", error),
                   Event("catch", WrapParseError(error, llmResponseString))>>
    /\ UNCHANGED <<opts, mode, currentMessages, rawResponseForError, info,
                   llmResponseString, jsonData, calls, replies>>
    /\ UNCHANGED auxVars

\* _validateOrFix resumes with the fixer's completion: one more parse and
\* one more validation, any failure rethrows the first validation error
FixValidateReturns ==
    /\ pc = "awaitFixValidate"
    /\ \E completion \in CompletionsOf(FixerTexts) :
          LET fixedResponse == FixedResponse(completion)
              parsed == JSONparse(fixedResponse)
              retryError == WrapValidationError(ValidatorSchemaError, jsonData)
          IN  /\ replies' = Append(replies, Reply(completion))
              /\ IF Truthy(fixedResponse) /\ parsed.ok
                 THEN IF Validator(parsed.data) = "ok"
                      THEN /\ Return([type |-> "validated", value |-> parsed.data])
                           /\ UNCHANGED events
                      ELSE /\ CatchBlock(retryError, rawResponseForError)
                           /\ events' = events \o
                                 <<Event("validator", ValidatorError(Validator(parsed.data))),
                                   Event("catch", retryError)>>
                 ELSE /\ CatchBlock(retryError, rawResponseForError)
                      /\ events' = Append(events, Event("catch", retryError))
    /\ UNCHANGED <<opts, mode, currentMessages, rawResponseForError, info,
                   llmResponseString, jsonData, calls>>
    /\ UNCHANGED auxVars

\* the fixer's backend call rejects inside _validateOrFix
FixValidateThrows ==
    /\ pc = "awaitFixValidate"
    /\ \E error \in BackendErrors :
          /\ CatchBlock(WrapValidationError(error, jsonData), rawResponseForError)
          /\ events' = events \o
                 <<Event("reject", error),
                   Event("catch", WrapValidationError(error, jsonData))>>
    /\ UNCHANGED <<opts, mode, currentMessages, rawResponseForError, info,
                   llmResponseString, jsonData, calls, replies>>
    /\ UNCHANGED auxVars

(***************************************************************************)
(* runPromptLoop, after the await on currentPrompt                         *)
(***************************************************************************)
\* rawResponseForError = completion.choices[0]?.message?.content || null
RawContent(completion) == OrElse(completion.content, Null)

\* JSON.stringify(completion)
StringifyCompletion(completion) == "{completion}"

\* the missing text reported with a plain Error
NoTextError_plain(completion) == PlainError("LLM returned no text content.")

\* throw new LlmRetryError("LLM returned no text content.", 'CUSTOM_ERROR', ...)
NoTextError(completion) ==
    LlmRetryError("LLM returned no text content.", "CUSTOM_ERROR",
                  StringifyCompletion(completion))

\* const finalConversation = [...currentMessages]; push(assistantMessage)
FinalConversation(messages, completion) ==
    IF completion.hasMessage
    THEN Append(messages, Msg("assistant", completion.content))
    ELSE messages

\* const info = { mode, conversation: finalConversation, attemptNumber }
ResponseInfo(m, messages, completion, att) ==
    [mode |-> m, conversation |-> FinalConversation(messages, completion),
     attemptNumber |-> att]

\* currentPrompt resolves: extraction, then the validate hook
PromptReturns ==
    /\ pc = "awaitPrompt"
    /\ \E completion \in RepliesFor(opts.entry) :
          LET raw == RawContent(completion)
              content == completion.content
          IN  /\ rawResponseForError' = raw
              /\ replies' = <<Reply(completion)>>
              /\ IF ResponseType(opts.entry) = "text" /\ content \in {Null, Undefined}
                 THEN /\ CatchBlock(NoTextError(completion), raw)
                      /\ events' = Append(events, Event("catch", NoTextError(completion)))
                      /\ UNCHANGED <<info, calls, llmResponseString, jsonData>>
                 ELSE /\ info' = ResponseInfo(mode, currentMessages, completion, attempt)
                      /\ IF ~opts.validate
                         THEN /\ Return([type |-> ResponseType(opts.entry),
                                         value |-> content])
                              /\ UNCHANGED <<calls, events, llmResponseString, jsonData>>
                         ELSE IF IsJsonEntry(opts.entry)
                         THEN ParseStage(content, raw)
                         ELSE /\ \/ /\ Return([type |-> "validated",
                                               value |-> "hook result"])
                                    /\ UNCHANGED events
                                 \/ \E error \in HookErrors :
                                       /\ CatchBlock(error, raw)
                                       /\ events' = Append(events, Event("catch", error))
                              /\ UNCHANGED <<calls, llmResponseString, jsonData>>
    /\ UNCHANGED <<opts, mode, currentMessages>>
    /\ UNCHANGED auxVars

Next ==
    \/ StartAttempt
    \/ ThrowExhausted
    \/ PromptThrows
    \/ PromptReturns
    \/ FixParseReturns
    \/ FixParseThrows
    \/ FixValidateReturns
    \/ FixValidateThrows

Spec == Init /\ [][Next]_vars

(***************************************************************************)
(* prompt of createLlmClient and executeWithRetry of retryUtils: the       *)
(* transport under one logical call.  runPromptLoop calls prompt once per  *)
(* attempt; prompt runs the request through executeWithRetry, which backs  *)
(* off between its own attempts.  The time a request has waited on a timer *)
(* and the state of the caller's abort signal are recorded with every      *)
(* request.                                                                *)
(***************************************************************************)
\* what openai.chat.completions.create can resolve with: a completion, or
\* a body that carries an error member
Completions == {[error |-> FALSE], [error |-> TRUE]}

\* what it can reject with while the signal is not aborted
RequestErrors == {"network down", "401 invalid_api_key"}

\* what it rejects with once the signal is aborted
AbortError == "Request was aborted."

\* what the validate hook of the loop makes of a completion: it accepts
\* it, or throws LlmRetryError
HookVerdicts == {"accept", "LlmRetryError"}

\* const baseDelay = 1000
baseDelay == 1000

\* Math.random() * 0.2, in thousandths: the least, a middle and the
\* greatest value of [0, 0.2) to three places
JitterFactors == {0, 100, 199}

\* the delay that does not grow with the attempt
backoffTime_flat(n) == baseDelay

\* const backoffTime = baseDelay * Math.pow(2, attemptNumber - 1)
backoffTime(n) == baseDelay * 2 ^ (n - 1)

\* const totalDelay = backoffTime + jitter
totalDelayOf(n, factor) ==
    backoffTime(n) + (backoffTime(n) * factor) \div 1000

\* one invocation of the operation: the attempt of the loop it belongs to,
\* the attempt of executeWithRetry, the timer awaited right before it and
\* whether the signal was aborted when it was made
Operation(loopAtt, n, delay) ==
    [loopAttempt |-> loopAtt, attemptNumber |-> n, waited |-> delay,
     afterAbort |-> aborted]

TransportInit ==
    /\ retries \in 0..MaxTransportRetries
    /\ loopMaxRetries \in 0..MaxLoopRetries
    /\ tpc = "start"
    /\ loopAttempt = 0
    /\ attemptNo = 0
    /\ totalDelay = 0
    /\ currentFeedbackForOperation = Undefined
    /\ operations = <<>>
    /\ aborted = FALSE
    /\ promptOutcome = "pending"
    /\ promptThrown = Undefined
    /\ LoopIdle
    /\ ParseIdle
    /\ HeapIdle
    /\ ConcurrentIdle
    /\ RestIdle

\* prompt is called and executeWithRetry enters attempt 0: no timer, the
\* operation is invoked
InvokePrompt(loopAtt) ==
    /\ loopAttempt' = loopAtt
    /\ attemptNo' = 0
    /\ currentFeedbackForOperation' = Undefined
    /\ operations' = Append(operations, Operation(loopAtt, 0, 0))
    /\ tpc' = "operation"
    /\ UNCHANGED <<totalDelay, promptOutcome, promptThrown>>

\* prompt rejects: not a LlmRetryError, so the loop throws LlmFatalError
PromptRejects(message) ==
    /\ promptOutcome' = "fatal"
    /\ promptThrown' = message
    /\ tpc' = "done"
    /\ UNCHANGED <<loopAttempt, attemptNo, totalDelay, operations>>

\* the for statement's attemptNumber++ and the timer of the next attempt
NextTransportAttempt ==
    /\ attemptNo' = attemptNo + 1
    /\ \E factor \in JitterFactors :
          totalDelay' = totalDelayOf(attemptNo + 1, factor)
    /\ tpc' = "sleeping"
    /\ UNCHANGED <<loopAttempt, operations, promptOutcome, promptThrown>>

\* the first call of prompt by the loop
StartCall ==
    /\ tpc = "start"
    /\ InvokePrompt(0)
    /\ UNCHANGED <<retries, loopMaxRetries, aborted, loopVars, parseVars, heapVars, concurrentVars,
                   restVars>>

\* the timer set by executeWithRetry fires: the operation is invoked
TimerFires ==
    /\ tpc = "sleeping"
    /\ operations' = Append(operations,
                            Operation(loopAttempt, attemptNo, totalDelay))
    /\ tpc' = "operation"
    /\ UNCHANGED <<retries, loopMaxRetries, loopAttempt, attemptNo, totalDelay,
                   currentFeedbackForOperation, aborted, promptOutcome,
                   promptThrown, loopVars, parseVars, heapVars, concurrentVars,
                   restVars>>

\* the operation rejects: catch (opError)
OperationThrows ==
    /\ tpc = "operation"
    /\ \E opError \in IF aborted THEN {AbortError} ELSE RequestErrors :
          IF attemptNo >= retries
          THEN /\ PromptRejects(<<"Operation failed on final attempt",
                                  attemptNo + 1, opError>>)
               /\ UNCHANGED currentFeedbackForOperation
          ELSE /\ currentFeedbackForOperation' = <<"OPERATION_EXCEPTION", opError>>
               /\ NextTransportAttempt
    /\ UNCHANGED <<retries, loopMaxRetries, aborted, loopVars, parseVars, heapVars, concurrentVars,
                   restVars>>

\* the operation resolves: validateAndProcess, and when executeWithRetry
\* returns, the loop's hook and, on LlmRetryError, the next call of prompt
OperationReturns ==
    /\ tpc = "operation"
    /\ ~aborted
    /\ \E completion \in Completions :
          IF ~completion.error
          THEN \E verdict \in HookVerdicts :
                  IF verdict = "accept"
                  THEN /\ promptOutcome' = "success"
                       /\ tpc' = "done"
                       /\ UNCHANGED <<loopAttempt, attemptNo, totalDelay,
                                      currentFeedbackForOperation, operations,
                                      promptThrown>>
                  ELSE IF loopAttempt + 1 <= loopMaxRetries
                  THEN InvokePrompt(loopAttempt + 1)
                  ELSE /\ promptOutcome' = "exhausted"
                       /\ promptThrown' = "LlmRetryExhaustedError"
                       /\ tpc' = "done"
                       /\ UNCHANGED <<loopAttempt, attemptNo, totalDelay,
                                      currentFeedbackForOperation, operations>>
          ELSE /\ currentFeedbackForOperation' = Undefined
               /\ IF attemptNo >= retries
                  THEN PromptRejects(<<"All attempts failed", retries + 1>>)
                  ELSE NextTransportAttempt
    /\ UNCHANGED <<retries, loopMaxRetries, aborted, loopVars, parseVars, heapVars, concurrentVars,
                   restVars>>

\* the caller aborts the signal it passed in requestOptions while the call
\* is suspended on the request or on the timer
Abort ==
    /\ tpc \in {"operation", "sleeping"}
    /\ ~aborted
    /\ aborted' = TRUE
    /\ UNCHANGED <<retries, loopMaxRetries, tpc, loopAttempt, attemptNo,
                   totalDelay, currentFeedbackForOperation, operations,
                   promptOutcome, promptThrown, loopVars, parseVars, heapVars, concurrentVars,
                   restVars>>

TransportNext ==
    \/ StartCall
    \/ TimerFires
    \/ OperationThrows
    \/ OperationReturns
    \/ Abort

TransportSpec == TransportInit /\ [][TransportNext]_vars

(***************************************************************************)
(* _parseOrFixJson on its own: the tolerant parse of one response text.    *)
(* A text is a sequence of lexical pieces: "ws" white space, "F" the       *)
(* three-backtick fence, "json" the language tag, "1" a digit, "q" a       *)
(* double quote, "x" any other character.  JSON texts over these pieces    *)
(* are numbers (digits) and strings (quote, pieces without quote, quote),  *)
(* with white space around them.                                           *)
(***************************************************************************)
Pieces == {"ws", "F", "json", "1", "q", "x"}

\* the response texts of at most MaxTextLen pieces
ResponseTexts == UNION {[1..n -> Pieces] : n \in 0..MaxTextLen}

\* what the fixer can answer: nothing usable, a JSON text, a broken text
FixedResponses == {Null, <<"1">>, <<"x">>}

RECURSIVE TrimStart(_)
TrimStart(text) ==
    IF text # <<>> /\ Head(text) = "ws" THEN TrimStart(Tail(text)) ELSE text

RECURSIVE TrimEnd(_)
TrimEnd(text) ==
    IF text # <<>> /\ text[Len(text)] = "ws"
    THEN TrimEnd(SubSeq(text, 1, Len(text) - 1))
    ELSE text

\* String.prototype.trim
TrimText(text) == TrimEnd(TrimStart(text))

\* the index of the first fence at or after position from, 0 if none
RECURSIVE FirstFence(_, _)
FirstFence(text, from) ==
    IF from > Len(text) THEN 0
    ELSE IF text[from] = "F" THEN from
    ELSE FirstFence(text, from + 1)

\* codeBlockRegex.exec(jsonDataToParse): the leftmost fence, an optional
\* tag, white space, the shortest body, white space, the next fence
CodeBlockMatch(text) ==
    LET open == FirstFence(text, 1)
        close == IF open = 0 THEN 0 ELSE FirstFence(text, open + 1)
        inner == SubSeq(text, open + 1, close - 1)
        afterTag == IF inner # <<>> /\ Head(inner) = "json" THEN Tail(inner)
                    ELSE inner
    IN  IF open = 0 \/ close = 0
        THEN [found |-> FALSE, body |-> <<>>]
        ELSE [found |-> TRUE, body |-> TrimText(afterTag)]

\* let jsonDataToParse = llmResponseString.trim();
\* if (match && match[1]) jsonDataToParse = match[1].trim()
JsonDataToParse(text) ==
    LET trimmed == TrimText(text)
        match == CodeBlockMatch(trimmed)
    IN  IF match.found /\ match.body # <<>> THEN TrimText(match.body) ELSE trimmed

\* JSON.parse on a text: a number, a string, or SyntaxError
ParseJsonText(text) ==
    LET t == TrimText(text)
    IN  IF t # <<>> /\ \A i \in 1..Len(t) : t[i] = "1"
        THEN [ok |-> TRUE, value |-> [type |-> "number", digits |-> Len(t)]]
        ELSE IF /\ Len(t) >= 2
                /\ t[1] = "q"
                /\ t[Len(t)] = "q"
                /\ \A i \in 2..(Len(t) - 1) : t[i] # "q"
        THEN [ok |-> TRUE,
              value |-> [type |-> "string", chars |-> SubSeq(t, 2, Len(t) - 1)]]
        ELSE [ok |-> FALSE, value |-> [type |-> Undefined]]

\* JSON.stringify of a parsed value
StringifyValue(value) ==
    IF value.type = "number"
    THEN [i \in 1..value.digits |-> "1"]
    ELSE <<"q">> \o value.chars \o <<"q">>

\* how _parseOrFixJson ends: with a value, or with an error
Returns(value) == [kind |-> "value", value |-> value, error |-> Undefined]

Throws(error) == [kind |-> "throws", value |-> [type |-> Undefined], error |-> error]

\* _parseOrFixJson up to its first await
TolerantParse(text) ==
    LET data == JsonDataToParse(text)
    IN  IF data = <<>>
        THEN Throws("LLM returned an empty string.")
        ELSE IF ParseJsonText(data).ok
        THEN Returns(ParseJsonText(data).value)
        ELSE Throws("SyntaxError")

ParseInit ==
    /\ responseText \in ResponseTexts
    /\ noFixer \in BOOLEAN
    /\ parsePc = "start"
    /\ handedToParser = <<>>
    /\ parseResult = Throws(Undefined)
    /\ reparseResult = Throws(Undefined)
    /\ fixerRequests = 0
    /\ LoopIdle
    /\ TransportIdle
    /\ HeapIdle
    /\ ConcurrentIdle
    /\ RestIdle

\* _parseOrFixJson is called with the response
ParseOrFix ==
    /\ parsePc = "start"
    /\ handedToParser' = JsonDataToParse(responseText)
    /\ LET first == TolerantParse(responseText)
       IN  IF first.error = "SyntaxError" /\ ~noFixer
           THEN /\ fixerRequests' = fixerRequests + 1
                /\ parsePc' = "awaitFix"
                /\ UNCHANGED parseResult
           ELSE /\ parseResult' = first
                /\ parsePc' = "done"
                /\ UNCHANGED fixerRequests
    /\ UNCHANGED <<responseText, noFixer, reparseResult, loopVars, transportVars, heapVars, concurrentVars,
                   restVars>>

\* the fixer's call resolves: JSON.parse(fixedResponse), or the first
\* parse error again
FixerResolves ==
    /\ parsePc = "awaitFix"
    /\ \E fixedResponse \in FixedResponses :
          parseResult' =
              IF fixedResponse # Null /\ ParseJsonText(fixedResponse).ok
              THEN Returns(ParseJsonText(fixedResponse).value)
              ELSE Throws("SyntaxError")
    /\ parsePc' = "done"
    /\ UNCHANGED <<responseText, noFixer, handedToParser, reparseResult,
                   fixerRequests, loopVars, transportVars, heapVars, concurrentVars,
                   restVars>>

\* the fixer's call rejects
FixerRejects ==
    /\ parsePc = "awaitFix"
    /\ parseResult' = Throws("network down")
    /\ parsePc' = "done"
    /\ UNCHANGED <<responseText, noFixer, handedToParser, reparseResult,
                   fixerRequests, loopVars, transportVars, heapVars, concurrentVars,
                   restVars>>

\* the tolerant parse applied to the serialization of a value it returned
ParseAgain ==
    /\ parsePc = "done"
    /\ parseResult.kind = "value"
    /\ reparseResult' = TolerantParse(StringifyValue(parseResult.value))
    /\ parsePc' = "again"
    /\ UNCHANGED <<responseText, noFixer, handedToParser, parseResult,
                   fixerRequests, loopVars, transportVars, heapVars, concurrentVars,
                   restVars>>

ParseNext ==
    \/ ParseOrFix
    \/ FixerResolves
    \/ FixerRejects
    \/ ParseAgain

ParseSpec == ParseInit /\ [][ParseNext]_vars

(***************************************************************************)
(* The message arrays of one logical call as JavaScript objects: an array  *)
(* is a cell of the heap, a variable or a field holds its address,         *)
(* [...a] allocates a cell with a's elements, push and unshift change a    *)
(* cell in place.  What was in a cell when an error or a hook was given it *)
(* is recorded next to the address.                                        *)
(***************************************************************************)
\* a content given as an array of content parts instead of a string
ContentParts == "[parts]"

\* the arrays a caller can pass as messages
CallerMessages == {<<Msg("system", "sys"), Msg("user", "task")>>,
                   <<Msg("user", "task")>>,
                   <<Msg("user", "task"), Msg("system", "sys")>>,
                   <<Msg("system", "sys"), Msg("user", "task"), Msg("system", "sys2")>>,
                   <<Msg("system", ContentParts), Msg("user", "task")>>}

\* choices[0]?.message of a completion: none, or one with text or without
AssistantMessages == {Undefined, Null, "reply"}

\* what ends an attempt after the backend resolved
HookOutcomes == {"returns", "LlmRetryError", "Error"}

\* a new array holding the elements of messages
Allocate(h, messages) == [heap |-> Append(h, messages), at |-> Len(h) + 1]

\* the array handed on without being copied
Spread_alias(h, address) == [heap |-> h, at |-> address]

\* [...array]
Spread(h, address) == Allocate(h, h[address])

\* array.push(message)
Push(h, address, message) == [h EXCEPT ![address] = Append(@, message)]

\* _getJsonPromptConfig: commonPromptFooter, the schema instructions
commonPromptFooter == "<schema instructions>"

\* a template literal's ${existingContent}: a string is taken as it is, an
\* array of content parts is converted with Array.prototype.toString
TemplateString(content) ==
    IF content = ContentParts THEN "[object Object]" ELSE content

\* the first index of messages with role system, 0 when there is none
\* (findIndex, shifted by one)
SystemMessageIndex(messages) ==
    IF \E i \in 1..Len(messages) : messages[i].role = "system"
    THEN CHOOSE i \in 1..Len(messages) :
            /\ messages[i].role = "system"
            /\ \A j \in 1..(i - 1) : messages[j].role # "system"
    ELSE 0

\* the footer appended to every system message
WithSchemaFooter_every(h, address) ==
    LET copy == Spread(h, address)
        old == copy.heap[copy.at]
    IN  [heap |-> [copy.heap EXCEPT ![copy.at] =
                      IF SystemMessageIndex(old) # 0
                      THEN [i \in 1..Len(old) |->
                               IF old[i].role = "system"
                               THEN Msg("system", TemplateString(old[i].content)
                                                  \o "\n" \o commonPromptFooter)
                               ELSE old[i]]
                      ELSE <<Msg("system", commonPromptFooter)>> \o old],
         at |-> copy.at]

\* _getJsonPromptConfig: finalMessages = [...messages], then the footer
\* goes into a new system message object put in place of the first system
\* message, or a system message holding the footer is unshifted
WithSchemaFooter(h, address) ==
    LET copy == Spread(h, address)
        old == copy.heap[copy.at]
        systemMessageIndex == SystemMessageIndex(old)
    IN  [heap |-> [copy.heap EXCEPT ![copy.at] =
                      IF systemMessageIndex # 0
                      THEN [old EXCEPT ![systemMessageIndex] =
                               Msg("system", TemplateString(@.content)
                                             \o "\n" \o commonPromptFooter)]
                      ELSE <<Msg("system", commonPromptFooter)>> \o old],
         at |-> copy.at]

\* an array reference as an error or a hook received it
Held(h, address) == [conversation |-> address, taken |-> h[address]]

HeapInit ==
    /\ \E messages \in CallerMessages : heap = <<messages>>
    /\ callerMessages = 1
    /\ initialRef = 0
    /\ conversationRef = 0
    /\ heapEntry \in {"promptRetry", "promptJson"}
    /\ heapMaxRetries \in 0..MaxRetriesBound
    /\ heapAttempt = 0
    /\ heapPc = "call"
    /\ attemptErrors = <<>>
    /\ hookInfos = <<>>
    /\ LoopIdle
    /\ TransportIdle
    /\ ParseIdle
    /\ ConcurrentIdle
    /\ RestIdle

\* the entry point is called: promptJson builds finalMessages, promptRetry
\* hands the caller's array on
EnterCall ==
    /\ heapPc = "call"
    /\ LET config == IF heapEntry = "promptJson"
                     THEN WithSchemaFooter(heap, callerMessages)
                     ELSE [heap |-> heap, at |-> callerMessages]
       IN  /\ heap' = config.heap
           /\ initialRef' = config.at
    /\ heapPc' = "loop"
    /\ UNCHANGED <<callerMessages, conversationRef, heapEntry, heapMaxRetries,
                   heapAttempt, attemptErrors, hookInfos, loopVars, transportVars, parseVars,
                   concurrentVars,
                   restVars>>

\* loop head: constructLlmMessages, then the backend is called
BuildMessages ==
    /\ heapPc = "loop"
    /\ heapAttempt <= heapMaxRetries
    /\ IF heapAttempt = 0
       THEN /\ conversationRef' = initialRef
            /\ UNCHANGED heap
       ELSE LET previousError == attemptErrors[Len(attemptErrors)]
                copy == Spread(heap, previousError.conversation)
            IN  /\ heap' = Push(copy.heap, copy.at, Msg("user", "feedback"))
                /\ conversationRef' = copy.at
    /\ heapPc' = "awaitPrompt"
    /\ UNCHANGED <<callerMessages, initialRef, heapEntry, heapMaxRetries,
                   heapAttempt, attemptErrors, hookInfos, loopVars, transportVars, parseVars,
                   concurrentVars,
                   restVars>>

\* the loop ends without an attempt left
Exhausted ==
    /\ heapPc = "loop"
    /\ heapAttempt > heapMaxRetries
    /\ heapPc' = "done"
    /\ UNCHANGED <<heap, callerMessages, initialRef, conversationRef,
                   heapEntry, heapMaxRetries, heapAttempt, attemptErrors,
                   hookInfos, loopVars, transportVars, parseVars,
                   concurrentVars,
                   restVars>>

\* catch (error) with a LlmRetryError: conversationForError
CatchRetryError(h, raw) ==
    LET copy == Spread(h, conversationRef)
        after == IF Truthy(raw)
                 THEN Push(copy.heap, copy.at, Msg("assistant", raw))
                 ELSE copy.heap
    IN  /\ heap' = after
        /\ attemptErrors' = Append(attemptErrors, Held(after, copy.at))
        /\ heapAttempt' = heapAttempt + 1
        /\ heapPc' = "loop"

\* the backend resolves: finalConversation, the hook, and the catch block
BackendResolves ==
    /\ heapPc = "awaitPrompt"
    /\ \E assistantMessage \in AssistantMessages, hook \in HookOutcomes :
          LET copy == Spread(heap, conversationRef)
              final == IF assistantMessage # Undefined
                       THEN Push(copy.heap, copy.at, Msg("assistant", assistantMessage))
                       ELSE copy.heap
          IN  /\ hookInfos' = Append(hookInfos, Held(final, copy.at))
              /\ IF hook = "LlmRetryError"
                 THEN CatchRetryError(final, assistantMessage)
                 ELSE /\ heap' = final
                      /\ heapPc' = "done"
                      /\ UNCHANGED <<heapAttempt, attemptErrors>>
    /\ UNCHANGED <<callerMessages, initialRef, conversationRef, heapEntry,
                   heapMaxRetries, loopVars, transportVars, parseVars,
                   concurrentVars,
                   restVars>>

\* the backend rejects
BackendRejects ==
    /\ heapPc = "awaitPrompt"
    /\ \/ CatchRetryError(heap, Null)
       \/ /\ heapPc' = "done"
          /\ UNCHANGED <<heap, heapAttempt, attemptErrors>>
    /\ UNCHANGED <<callerMessages, initialRef, conversationRef, heapEntry,
                   heapMaxRetries, hookInfos, loopVars, transportVars, parseVars,
                   concurrentVars,
                   restVars>>

HeapNext ==
    \/ EnterCall
    \/ BuildMessages
    \/ Exhausted
    \/ BackendResolves
    \/ BackendRejects

HeapSpec == HeapInit /\ [][HeapNext]_vars

(***************************************************************************)
(* Two logical calls on one client, interleaved at their awaits.  The      *)
(* client (the closure of createLlmRetryClient) is shared; the working     *)
(* variables of runPromptLoop live in the frame of the invocation.  Each   *)
(* step of a call is the code between two awaits on the backend: the       *)
(* backend's answer is handled and, if the loop goes on, the next attempt  *)
(* is sent.                                                                *)
(***************************************************************************)
CallIds == {1, 2}

\* how the backend and the validate hook answer one attempt: the hook
\* accepts the reply, the hook throws LlmRetryError, the backend rejects
Answers == {"accept", "LlmRetryError", "reject"}

\* the messages the caller of call c passes
MessagesOf(c) == <<Msg("system", "sys"), Msg("user", <<"task", c>>)>>

\* the working variables kept in the closure of the client
FrameOf_shared(c) == 1

\* let lastError, attempt, currentMessages, rawResponseForError: declared
\* inside runPromptLoop, one set per invocation
FrameOf(c) == c

\* the frame of an invocation once attempt 0 has been sent
FirstFrame(c) ==
    [attempt |-> 0, mode |-> "main", conversation |-> MessagesOf(c),
     chain |-> <<>>, outcome |-> "pending"]

\* the code from the end of an await on the backend to the next await or
\* to the end of the call
AfterAnswer(frame, answer, maxRetries, fallback) ==
    IF frame.outcome # "pending" THEN frame
    ELSE IF answer = "accept" THEN [frame EXCEPT !.outcome = "success"]
    ELSE IF answer = "reject" THEN [frame EXCEPT !.outcome = "fatal"]
    ELSE LET snapshot == Append(frame.conversation, Msg("assistant", "reply"))
             attemptError == [attemptNumber |-> frame.attempt, mode |-> frame.mode,
                              conversation |-> snapshot]
         IN  IF frame.attempt + 1 > maxRetries
             THEN [frame EXCEPT !.chain = Append(@, attemptError),
                                !.attempt = @ + 1,
                                !.outcome = "exhausted"]
             ELSE [frame EXCEPT !.chain = Append(@, attemptError),
                                !.attempt = @ + 1,
                                !.mode = IF fallback THEN "fallback" ELSE "main",
                                !.conversation =
                                    Append(snapshot, Msg("user", "feedback"))]

\* the frame of call c had it run alone and heard the given answers
RECURSIVE Alone(_, _, _, _)
Alone(c, answers, maxRetries, fallback) ==
    IF answers = <<>> THEN FirstFrame(c)
    ELSE AfterAnswer(Alone(c, SubSeq(answers, 1, Len(answers) - 1), maxRetries,
                           fallback),
                     answers[Len(answers)], maxRetries, fallback)

ConcurrentInit ==
    /\ client \in [fallbackPrompt : BOOLEAN]
    /\ inputs \in [CallIds -> [maxRetries : 0..MaxRetriesBound]]
    /\ frames = [f \in CallIds |-> [outcome |-> "unused"]]
    /\ heard = [c \in CallIds |-> <<>>]
    /\ observed = [c \in CallIds |-> [outcome |-> "not called"]]
    /\ LoopIdle
    /\ TransportIdle
    /\ ParseIdle
    /\ HeapIdle
    /\ RestIdle

\* call c is made: the frame is set up and attempt 0 is sent
CallStarts(c) ==
    /\ observed[c].outcome = "not called"
    /\ frames' = [frames EXCEPT ![FrameOf(c)] = FirstFrame(c)]
    /\ observed' = [observed EXCEPT ![c] = FirstFrame(c)]
    /\ UNCHANGED <<client, inputs, heard, loopVars, transportVars, parseVars,
                   heapVars,
                   restVars>>

\* the pending backend call of call c is answered and call c runs to its
\* next await or to its end
CallResumes(c) ==
    /\ observed[c].outcome = "pending"
    /\ \E answer \in Answers :
          LET after == AfterAnswer(frames[FrameOf(c)], answer,
                                   inputs[c].maxRetries, client.fallbackPrompt)
          IN  /\ frames' = [frames EXCEPT ![FrameOf(c)] = after]
              /\ observed' = [observed EXCEPT ![c] = after]
              /\ heard' = [heard EXCEPT ![c] = Append(@, answer)]
    /\ UNCHANGED <<client, inputs, loopVars, transportVars, parseVars, heapVars,
                   restVars>>

ConcurrentNext ==
    \/ \E c \in CallIds : CallStarts(c)
    \/ \E c \in CallIds : CallResumes(c)

ConcurrentSpec == ConcurrentInit /\ [][ConcurrentNext]_vars

(***************************************************************************)
(* executeWithRetry on its own, called by prompt (which passes a predicate *)
(* on errors after the initial feedback) or by any other caller, with an   *)
(* operation and a validateAndProcess that end in every way they can.      *)
(***************************************************************************)
\* everything outside this call of executeWithRetry
outsideRetry == <<coreVars, validateVars, truncateVars>>

\* validationOutcome.data: undefined, or the data made from the result of
\* the operation's invocation n
NoData == [defined |-> FALSE, attempt |-> -1]

DataOf(n) == [defined |-> TRUE, attempt |-> n]

\* no error; status 0 stands for an error without a status
NoOperationError == [message |-> Undefined, status |-> 0, code |-> Undefined]

\* what the operation rejects with: a network failure, and the two shapes
\* of an authentication error of the API
OperationErrors ==
    {[message |-> "network down", status |-> 0, code |-> Undefined],
     [message |-> "Unauthorized", status |-> 401, code |-> Undefined],
     [message |-> "Incorrect API key", status |-> 0, code |-> "invalid_api_key"]}

\* what validateAndProcess rejects with
ValidationError == [message |-> "validateAndProcess threw", status |-> 0, code |-> Undefined]

\* currentFeedbackForOperation: undefined, the feedback made from an
\* exception of the operation, or the outcome's feedbackForNextAttempt
NoFeedback == [type |-> Undefined, message |-> Undefined]

ExceptionFeedback(opError) == [type |-> "OPERATION_EXCEPTION", message |-> opError.message]

\* RetryValidationResult: the outcomes validateAndProcess can resolve with
\* on attempt n.  prompt's validateAndProcess answers { isValid: true,
\* data: completion } or, for a completion with an error field,
\* { isValid: false }
ValidationOutcomes(n) ==
    IF fifthArgument
    THEN {[isValid |-> TRUE, data |-> DataOf(n), isCriticalFailure |-> FALSE,
           feedbackForNextAttempt |-> NoFeedback],
          [isValid |-> FALSE, data |-> NoData, isCriticalFailure |-> FALSE,
           feedbackForNextAttempt |-> NoFeedback]}
    ELSE [isValid : BOOLEAN, data : {NoData, DataOf(n)}, isCriticalFailure : BOOLEAN,
          feedbackForNextAttempt : {[type |-> "VALIDATION", message |-> "try again"]}]

\* the predicate prompt passes as fifth argument
shouldRetryError(error) == ~(error.status = 401 \/ error.code = "invalid_api_key")

\* one invocation of operation(attemptNumber, currentFeedbackForOperation)
Invocation(n, feedback) ==
    [attemptNumber |-> n, feedback |-> feedback, result |-> "pending",
     error |-> NoOperationError]

\* how the call of executeWithRetry ended
RetryResult(kind, data, message, n, cause) ==
    [kind |-> kind, data |-> data, message |-> message, attemptNumber |-> n,
     cause |-> cause]

RetryInit ==
    /\ maxRetriesArg \in -1..MaxRetryArg
    /\ fifthArgument \in BOOLEAN
    /\ retryPc = "start"
    /\ retryAttempt = 0
    /\ retryDelay = 0
    /\ feedbackForOperation = NoFeedback
    /\ invocations = <<>>
    /\ validations = <<>>
    /\ retryOutcome = RetryResult("pending", NoData, Undefined, -1, NoOperationError)
    /\ CoreIdle
    /\ ValidateIdle
    /\ TruncateIdle

\* attemptNumber <= maxRetries
RetryLoopCondition(n) == n <= maxRetriesArg

\* no attempt taken for the final one
FinalAttempt_never(n) == FALSE

\* if (attemptNumber >= maxRetries)
FinalAttempt(n) == n >= maxRetriesArg

\* if (validationOutcome.isValid && validationOutcome.data !== undefined)
IsSuccess(validationOutcome) ==
    validationOutcome.isValid /\ validationOutcome.data.defined

\* the critical flag not looked at
IsCritical_ignored(validationOutcome) == FALSE

\* if (validationOutcome.isCriticalFailure)
IsCritical(validationOutcome) == validationOutcome.isCriticalFailure

\* throw new Error(message, { cause })
RetryThrow(message, cause) ==
    /\ retryOutcome' = RetryResult("threw", NoData, message, retryAttempt, cause)
    /\ retryPc' = "done"
    /\ UNCHANGED <<retryAttempt, retryDelay>>

\* return validationOutcome.data
RetryReturn(data) ==
    /\ retryOutcome' = RetryResult("returned", data, Undefined, retryAttempt,
                                   NoOperationError)
    /\ retryPc' = "done"
    /\ UNCHANGED <<retryAttempt, retryDelay>>

\* the end of the loop body or continue: attemptNumber++, the loop test,
\* and either the timer of the next attempt or the throw after the loop
RetryContinue ==
    /\ retryAttempt' = retryAttempt + 1
    /\ IF RetryLoopCondition(retryAttempt + 1)
       THEN /\ \E factor \in JitterFactors :
                  retryDelay' = totalDelayOf(retryAttempt + 1, factor)
            /\ retryPc' = "sleeping"
            /\ UNCHANGED retryOutcome
       ELSE /\ retryOutcome' = RetryResult("threw", NoData,
                                           "Exited retry loop unexpectedly",
                                           retryAttempt + 1, NoOperationError)
            /\ retryPc' = "done"
            /\ retryDelay' = 0

\* executeWithRetry is called: the loop is entered and attempt 0 invokes
\* the operation, or the loop is not entered at all
ExecuteWithRetry ==
    /\ retryPc = "start"
    /\ IF RetryLoopCondition(0)
       THEN /\ invocations' = Append(invocations, Invocation(0, feedbackForOperation))
            /\ retryPc' = "operation"
            /\ UNCHANGED retryOutcome
       ELSE /\ retryOutcome' = RetryResult("threw", NoData,
                                           "Exited retry loop unexpectedly",
                                           0, NoOperationError)
            /\ retryPc' = "done"
            /\ UNCHANGED invocations
    /\ UNCHANGED <<maxRetriesArg, fifthArgument, retryAttempt, retryDelay,
                   feedbackForOperation, validations, outsideRetry>>

\* the timer of an attempt after the first fires: the operation is invoked
RetryTimerFires ==
    /\ retryPc = "sleeping"
    /\ invocations' = Append(invocations,
                             Invocation(retryAttempt, feedbackForOperation))
    /\ retryDelay' = 0
    /\ retryPc' = "operation"
    /\ UNCHANGED <<maxRetriesArg, fifthArgument, retryAttempt,
                   feedbackForOperation, validations, retryOutcome, outsideRetry>>

\* the operation rejects: catch (opError).  The function has four
\* parameters; a fifth argument is not looked at
OperationRejected ==
    /\ retryPc = "operation"
    /\ \E opError \in OperationErrors :
          /\ invocations' = [invocations EXCEPT ![Len(invocations)] =
                                [@ EXCEPT !.result = "rejected", !.error = opError]]
          /\ IF FinalAttempt(retryAttempt)
             THEN /\ RetryThrow("Operation failed on final attempt", opError)
                  /\ UNCHANGED feedbackForOperation
             ELSE /\ feedbackForOperation' = ExceptionFeedback(opError)
                  /\ RetryContinue
    /\ UNCHANGED <<maxRetriesArg, fifthArgument, validations, outsideRetry>>

\* the operation resolves: validateAndProcess is called with its result
OperationResolved ==
    /\ retryPc = "operation"
    /\ invocations' = [invocations EXCEPT ![Len(invocations)].result = "resolved"]
    /\ retryPc' = "validate"
    /\ UNCHANGED <<maxRetriesArg, fifthArgument, retryAttempt, retryDelay,
                   feedbackForOperation, validations, retryOutcome, outsideRetry>>

\* validateAndProcess resolves with an outcome
ValidationResolved ==
    /\ retryPc = "validate"
    /\ \E validationOutcome \in ValidationOutcomes(retryAttempt) :
          /\ validations' = Append(validations,
                                   [attemptNumber |-> retryAttempt,
                                    outcome |-> validationOutcome])
          /\ IF IsSuccess(validationOutcome)
             THEN /\ RetryReturn(validationOutcome.data)
                  /\ UNCHANGED feedbackForOperation
             ELSE /\ feedbackForOperation' = validationOutcome.feedbackForNextAttempt
                  /\ IF IsCritical(validationOutcome)
                     THEN RetryThrow("Critical failure encountered on attempt",
                                     NoOperationError)
                     ELSE IF FinalAttempt(retryAttempt)
                     THEN RetryThrow("All attempts failed", NoOperationError)
                     ELSE RetryContinue
    /\ UNCHANGED <<maxRetriesArg, fifthArgument, invocations, outsideRetry>>

\* validateAndProcess rejects: the await is outside the try, the exception
\* leaves executeWithRetry as it is
ValidationRejected ==
    /\ retryPc = "validate"
    /\ ~fifthArgument
    /\ retryOutcome' = RetryResult("threw", NoData, ValidationError.message,
                                   retryAttempt, ValidationError)
    /\ retryPc' = "done"
    /\ UNCHANGED <<maxRetriesArg, fifthArgument, retryAttempt, retryDelay,
                   feedbackForOperation, invocations, validations, outsideRetry>>

RetryNext ==
    \/ ExecuteWithRetry
    \/ RetryTimerFires
    \/ OperationRejected
    \/ OperationResolved
    \/ ValidationResolved
    \/ ValidationRejected

RetrySpec == RetryInit /\ [][RetryNext]_vars

(***************************************************************************)
(* _validateOrFix on its own, inside processResponse and one attempt of    *)
(* the loop: the beforeValidation hook and the validator on the parsed     *)
(* data, the fixer, and the hook and the validator again on what the fixer *)
(* returned.  The data are named after where they come from: "original"    *)
(* is the parsed response, "fixed" the parsed output of the fixer.         *)
(***************************************************************************)
\* everything outside this call of _validateOrFix
outsideValidate == <<coreVars, retryVars, truncateVars>>

ValidatedDatas == {"original", "fixed"}

\* what a call of the hook does: it returns the data, coerced, or throws
HookResults == {"returns", "Error", "LlmRetryError", "SchemaValidationError"}

\* options.beforeValidation: absent, or a function of the data
BeforeValidationHooks ==
    {[present |-> FALSE, on |-> [d \in ValidatedDatas |-> "returns"]]}
        \cup [present : {TRUE}, on : [ValidatedDatas -> HookResults]]

\* what the validator makes of the data it is given: it returns them,
\* throws SchemaValidationError, or throws another Error
ValidatorVerdicts == {"ok", "schema", "other"}

\* what _tryToFixJson returns: null, text that is not JSON, or JSON text
FixerReturns == {Null, "not json", "json"}

NoException == [name |-> Undefined, from |-> Undefined]

Exception(name, from) == [name |-> name, from |-> from]

\* one pass: if (beforeValidation) data = beforeValidation(data);
\* return validator(data)
ValidationPass(data) ==
    IF beforeValidationHook.present /\ beforeValidationHook.on[data] # "returns"
    THEN Exception(beforeValidationHook.on[data], "beforeValidation")
    ELSE IF verdicts[data] = "ok" THEN NoException
    ELSE IF verdicts[data] = "schema"
    THEN Exception("SchemaValidationError", "validator")
    ELSE Exception("Error", "validator")

\* the hook's calls of one pass
HookCallsOf(pass, data) ==
    IF beforeValidationHook.present
    THEN <<[pass |-> pass, data |-> data,
            threw |-> IF beforeValidationHook.on[data] = "returns"
                      THEN Undefined
                      ELSE beforeValidationHook.on[data]]>>
    ELSE <<>>

\* what the attempt becomes when the exception leaves _validateOrFix:
\* processResponse wraps a SchemaValidationError into a LlmRetryError and
\* rethrows anything else, the catch block of the loop retries on a
\* LlmRetryError and throws LlmFatalError on anything else
FailureClass(name) ==
    IF name \in {"SchemaValidationError", "LlmRetryError"}
    THEN "recoverable"
    ELSE "fatal"

ValidateReturned ==
    [kind |-> "returned", error |-> NoException, class |-> "none"]

ValidateThrew(error) ==
    [kind |-> "threw", error |-> error, class |-> FailureClass(error.name)]

\* suspended on the fixer, holding validationError
ValidateSuspended(validationError) ==
    [kind |-> "pending", error |-> validationError, class |-> "none"]

ValidateInit ==
    /\ beforeValidationHook \in BeforeValidationHooks
    /\ verdicts \in [ValidatedDatas -> ValidatorVerdicts]
    /\ fixerOff \in BOOLEAN
    /\ validatePc = "start"
    /\ hookCalls = <<>>
    /\ repairRequests = <<>>
    /\ validateOutcome = ValidateSuspended(NoException)
    /\ CoreIdle
    /\ RetryIdle
    /\ TruncateIdle

\* _validateOrFix from its start to its first await or its end
ValidateOrFix ==
    /\ validatePc = "start"
    /\ hookCalls' = hookCalls \o HookCallsOf("initial", "original")
    /\ LET validationError == ValidationPass("original")
       IN  IF validationError = NoException
           THEN /\ validateOutcome' = ValidateReturned
                /\ validatePc' = "done"
                /\ UNCHANGED repairRequests
           ELSE IF validationError.name # "SchemaValidationError" \/ fixerOff
           THEN /\ validateOutcome' = ValidateThrew(validationError)
                /\ validatePc' = "done"
                /\ UNCHANGED repairRequests
           ELSE /\ repairRequests' = Append(repairRequests, "original")
                /\ validateOutcome' = ValidateSuspended(validationError)
                /\ validatePc' = "awaitFix"
    /\ UNCHANGED <<beforeValidationHook, verdicts, fixerOff, outsideValidate>>

\* _tryToFixJson resolves: the repair pass, whose catch rethrows
\* validationError whatever was thrown
RepairResolves ==
    /\ validatePc = "awaitFix"
    /\ \E fixedResponse \in FixerReturns :
          LET validationError == validateOutcome.error
          IN  IF fixedResponse = "json"
              THEN /\ hookCalls' = hookCalls \o HookCallsOf("repair", "fixed")
                   /\ validateOutcome' =
                          IF ValidationPass("fixed") = NoException
                          THEN ValidateReturned
                          ELSE ValidateThrew(validationError)
              ELSE /\ validateOutcome' = ValidateThrew(validationError)
                   /\ UNCHANGED hookCalls
    /\ validatePc' = "done"
    /\ UNCHANGED <<beforeValidationHook, verdicts, fixerOff, repairRequests,
                   outsideValidate>>

\* _tryToFixJson rejects: the backend's error leaves _validateOrFix
RepairRejects ==
    /\ validatePc = "awaitFix"
    /\ validateOutcome' = ValidateThrew(Exception("Error", "prompt"))
    /\ validatePc' = "done"
    /\ UNCHANGED <<beforeValidationHook, verdicts, fixerOff, hookCalls,
                   repairRequests, outsideValidate>>

ValidateNext ==
    \/ ValidateOrFix
    \/ RepairResolves
    \/ RepairRejects

ValidateSpec == ValidateInit /\ [][ValidateNext]_vars

(***************************************************************************)
(* truncateMessages, truncateSingleMessage and countChars.  A text is the  *)
(* sequence of its characters, written as numbers: the characters of a     *)
(* caller's text are 1, 2, 3, ..., those of the truncation suffix are 0,   *)
(* a newline is -1.  A content is null, a string or an array of parts; a   *)
(* part is a text part or an image part.                                   *)
(***************************************************************************)
\* everything outside this call of truncateMessages
outsideTruncate == <<coreVars, retryVars, validateVars>>

\* return sum + 2500: what an image part counts for
ImageChars == 2500

\* const TRUNCATION_SUFFIX = '...[truncated]', 14 characters
TRUNCATION_SUFFIX == [i \in 1..14 |-> 0]

\* a text of n characters
TextOf(n) == [i \in 1..n |-> i]

NullContent == [kind |-> "null", text |-> <<>>, parts |-> <<>>]

StringContent(text) == [kind |-> "string", text |-> text, parts |-> <<>>]

PartsContent(parts) == [kind |-> "parts", text |-> <<>>, parts |-> parts]

TextPart(text) == [type |-> "text", text |-> text]

ImagePart == [type |-> "image_url", text |-> <<>>]

\* the contents a message can have
MessageContents ==
    {NullContent,
     StringContent(TextOf(3)),
     StringContent(TextOf(20)),
     PartsContent(<<TextPart(TextOf(16)), ImagePart>>),
     PartsContent(<<ImagePart, ImagePart>>),
     PartsContent(<<TextPart(TextOf(3)), TextPart(TextOf(3))>>)}

\* the messages of a conversation; an assistant or tool message is
\* handled like a user message
TruncatableMessages ==
    {Msg(role, content) : role \in {"system", "user"}, content \in MessageContents}

\* the arrays of at most MaxMessages messages
MessageLists == UNION {[1..n -> TruncatableMessages] : n \in 0..MaxMessages}

\* the limits tried: none, below and above the suffix length, around the
\* weight of one and two images
Limits == {0, 2, 5, 15, 19, 22, 2500, 2516, 2530, 5010}

\* the reduce over the parts of an array content
RECURSIVE PartsChars(_)
PartsChars(parts) ==
    IF parts = <<>> THEN 0
    ELSE (IF Head(parts).type = "text" THEN Len(Head(parts).text)
          ELSE IF Head(parts).type = "image_url" THEN ImageChars
          ELSE 0) + PartsChars(Tail(parts))

countChars(message) ==
    IF message.content.kind = "null" THEN 0
    ELSE IF message.content.kind = "string" THEN Len(message.content.text)
    ELSE PartsChars(message.content.parts)

\* JSON.parse(JSON.stringify(value)) of a message or an array of messages:
\* roles, strings, null and arrays of parts come back as they were
JsonCopy(value) == value

\* textParts.map(p => p.text).join('\n')
RECURSIVE JoinText(_)
JoinText(textParts) ==
    IF textParts = <<>> THEN <<>>
    ELSE IF Len(textParts) = 1 THEN Head(textParts).text
    ELSE Head(textParts).text \o <<-1>> \o JoinText(Tail(textParts))

\* the suffix added to the first charLimit characters
TruncateText_suffixAdded(text, charLimit) ==
    IF charLimit > Len(TRUNCATION_SUFFIX)
    THEN SubSeq(text, 1, charLimit) \o TRUNCATION_SUFFIX
    ELSE SubSeq(text, 1, charLimit)

\* a text longer than charLimit cut to it: substring(0, charLimit - 14)
\* + TRUNCATION_SUFFIX, or substring(0, charLimit) when the suffix does not
\* fit
TruncateText(text, charLimit) ==
    IF charLimit > Len(TRUNCATION_SUFFIX)
    THEN SubSeq(text, 1, charLimit - Len(TRUNCATION_SUFFIX)) \o TRUNCATION_SUFFIX
    ELSE SubSeq(text, 1, charLimit)

\* while (combinedText.length + keptImages.length * 2500 > charLimit
\*        && keptImages.length > 0) keptImages.pop()
RECURSIVE KeptImages(_, _, _)
KeptImages(textLength, images, charLimit) ==
    IF textLength + images * ImageChars > charLimit /\ images > 0
    THEN KeptImages(textLength, images - 1, charLimit)
    ELSE images

truncateSingleMessage(message, charLimit) ==
    LET messageCopy == JsonCopy(message)
        content == messageCopy.content
    IN  IF charLimit <= 0
        THEN [messageCopy EXCEPT !.content = NullContent]
        ELSE IF \/ content.kind = "null"
                \/ (content.kind = "string" /\ content.text = <<>>)
                \/ countChars(messageCopy) <= charLimit
        THEN messageCopy
        ELSE IF content.kind = "string"
        THEN [messageCopy EXCEPT !.content =
                 StringContent(IF Len(content.text) > charLimit
                               THEN TruncateText(content.text, charLimit)
                               ELSE content.text)]
        ELSE LET textParts == SelectSeq(content.parts, LAMBDA p : p.type = "text")
                 imageParts == SelectSeq(content.parts, LAMBDA p : p.type = "image_url")
                 joined == JoinText(textParts)
                 kept == KeptImages(Len(joined), Len(imageParts), charLimit)
                 textCharLimit == charLimit - kept * ImageChars
                 combinedText == IF Len(joined) > textCharLimit
                                 THEN IF textCharLimit >= 0
                                      THEN TruncateText(joined, textCharLimit)
                                      ELSE <<>>
                                 ELSE joined
             IN  [messageCopy EXCEPT !.content =
                     PartsContent((IF combinedText # <<>>
                                   THEN <<TextPart(combinedText)>>
                                   ELSE <<>>)
                                  \o SubSeq(imageParts, 1, kept))]

\* otherMessages.reduce((sum, msg) => sum + countChars(msg), 0)
RECURSIVE TotalChars(_)
TotalChars(messages) ==
    IF messages = <<>> THEN 0
    ELSE countChars(Head(messages)) + TotalChars(Tail(messages))

\* Math.min
Min(a, b) == IF a <= b THEN a ELSE b

\* the loop over the messages after the first, from position i on; the
\* source's index 1 is position 2
RECURSIVE TruncateLater(_, _, _)
TruncateLater(others, i, excessChars) ==
    IF i > Len(others) \/ excessChars <= 0
    THEN [messages |-> others, excessChars |-> excessChars]
    ELSE LET messageChars == countChars(others[i])
             charsToCut == Min(excessChars, messageChars)
             newCharCount == messageChars - charsToCut
         IN  TruncateLater([others EXCEPT ![i] =
                               truncateSingleMessage(others[i], newCharCount)],
                           i + 1, excessChars - charsToCut)

\* if (excessChars > 0): the first message is truncated
TruncateFirst(later) ==
    IF later.excessChars > 0
    THEN LET firstMessage == later.messages[1]
             firstMessageChars == countChars(firstMessage)
             charsToCut == Min(later.excessChars, firstMessageChars)
         IN  [later.messages EXCEPT ![1] =
                 truncateSingleMessage(firstMessage, firstMessageChars - charsToCut)]
    ELSE later.messages

truncateMessages(messages, limit) ==
    LET systemMessages == SelectSeq(messages, LAMBDA m : m.role = "system")
        otherMessages == SelectSeq(messages, LAMBDA m : m.role # "system")
        totalChars == TotalChars(otherMessages)
    IN  IF totalChars <= limit
        THEN messages
        ELSE LET mutableOtherMessages ==
                     TruncateFirst(TruncateLater(JsonCopy(otherMessages), 2,
                                                 totalChars - limit))
                 finalMessages ==
                     SelectSeq(mutableOtherMessages, LAMBDA m : countChars(m) > 0)
             IN  IF systemMessages # <<>>
                 THEN <<Head(systemMessages)>> \o finalMessages
                 ELSE finalMessages

TruncateInit ==
    /\ truncInput \in MessageLists
    /\ truncLimit \in Limits
    /\ truncPc = "called"
    /\ truncResult = <<>>
    /\ CoreIdle
    /\ RetryIdle
    /\ ValidateIdle

\* the call returns
TruncateMessagesReturns ==
    /\ truncPc = "called"
    /\ truncResult' = truncateMessages(truncInput, truncLimit)
    /\ truncPc' = "returned"
    /\ UNCHANGED <<truncInput, truncLimit, outsideTruncate>>

TruncateNext == TruncateMessagesReturns

TruncateSpec == TruncateInit /\ [][TruncateNext]_vars

(***************************************************************************)
(* Observations used by the properties                                     *)
(***************************************************************************)
\* the backend invocations made by the retry loop itself
MainCalls == SelectSeq(calls, LAMBDA c : c.kind = "main")

FixerCalls == SelectSeq(calls, LAMBDA c : c.kind = "fixer")

\* the main-loop call of attempt n (there is at most one)
MainCallsOf(n) == SelectSeq(calls, LAMBDA c : c.kind = "main" /\ c.attempt = n)

\* the exceptions that reached the catch block of the loop
Caught == SelectSeq(events, LAMBDA e : e.ev = "catch")

\* the recoverable failures encountered so far
RecoverableFailures == SelectSeq(Caught, LAMBDA e : e.name = "LlmRetryError")

\* the LlmRetryAttemptErrors reached from index i by following .cause,
\* most recent first
RECURSIVE Chain(_)
Chain(i) == IF i = 0 THEN <<>> ELSE <<errs[i]>> \o Chain(errs[i].cause)

ChainDepth == Len(Chain(lastError))

(***************************************************************************)
(* C1: whatever the backend answers, one call of the attempt loop invokes  *)
(* prompt / fallbackPrompt at most maxRetries + 1 times from the main      *)
(* loop; the fixer's invocations are not part of that count.               *)
(***************************************************************************)
C1_MainCallsBounded == Len(MainCalls) <= opts.maxRetries + 1

\* a call that used its whole budget and also made fixer calls
C1_Witness ==
    /\ opts.maxRetries >= 1
    /\ Len(MainCalls) = opts.maxRetries + 1
    /\ Len(FixerCalls) >= 2
    /\ pc = "done"

(***************************************************************************)
(* C2: when every attempt 0..maxRetries fails recoverably the call makes   *)
(* exactly maxRetries + 1 main backend calls and then throws               *)
(* LlmRetryExhaustedError whose cause is the LlmRetryAttemptError of       *)
(* attempt maxRetries; the exhausted error is thrown only then.            *)
(***************************************************************************)
C2_ExhaustedExactly ==
    /\ outcome = "exhausted" =>
          /\ thrown.name = "LlmRetryExhaustedError"
          /\ Len(MainCalls) = opts.maxRetries + 1
          /\ Len(RecoverableFailures) = opts.maxRetries + 1
          /\ thrown.cause # 0
          /\ errs[thrown.cause].attemptNumber = opts.maxRetries
          /\ errs[thrown.cause] = errs[Len(errs)]
    /\ Len(RecoverableFailures) = opts.maxRetries + 1 =>
          /\ Len(MainCalls) = opts.maxRetries + 1
          /\ pc \in {"loop", "done"}
          /\ pc = "done" => outcome = "exhausted"
          /\ ~ENABLED StartAttempt

C2_Witness ==
    /\ outcome = "exhausted"
    /\ opts.maxRetries = 2
    /\ Len(MainCalls) = 3
    /\ errs[thrown.cause].attemptNumber = 2

(***************************************************************************)
(* C3: from an LlmRetryExhaustedError with maxRetries = n, following       *)
(* .cause gives exactly n + 1 LlmRetryAttemptErrors with attemptNumber     *)
(* n, n-1, ..., 0, each with the message "Attempt k+1 failed..." and with  *)
(* .error the LlmRetryError of its own attempt; attempt 0's has no cause.  *)
(***************************************************************************)
C3_CauseChain ==
    outcome = "exhausted" =>
        LET chain == Chain(thrown.cause)
            n == opts.maxRetries
        IN  /\ Len(chain) = n + 1
            /\ \A i \in 1..Len(chain) :
                  LET k == n + 1 - i IN
                  /\ chain[i].name = "LlmRetryAttemptError"
                  /\ chain[i].attemptNumber = k
                  /\ chain[i].message[1] = "Attempt"
                  /\ chain[i].message[2] = k + 1
                  /\ chain[i].message[3] = "failed:"
                  /\ chain[i].error.name = "LlmRetryError"
                  /\ chain[i].error = RecoverableFailures[k + 1].error
                  /\ RecoverableFailures[k + 1].at = k
            /\ chain[Len(chain)].cause = 0

C3_Witness ==
    /\ outcome = "exhausted"
    /\ opts.maxRetries = 2
    /\ Len(Chain(thrown.cause)) = 3
    /\ Chain(thrown.cause)[1].error # Chain(thrown.cause)[3].error

(***************************************************************************)
(* C4, as stated: the depth of the error chain equals the      *)
(* number of recoverable failures encountered so far and is capped at      *)
(* maxRetries.                                                             *)
(***************************************************************************)
C4_DepthCappedAtMaxRetries ==
    /\ ChainDepth = Len(RecoverableFailures)
    /\ ChainDepth <= opts.maxRetries

(***************************************************************************)
(* C4, amended: in every reachable state the depth of the error chain      *)
(* equals the number of recoverable failures encountered so far, and it    *)
(* is capped at maxRetries + 1 (one LlmRetryAttemptError per attempt).     *)
(***************************************************************************)
C4_DepthCappedAtAttempts ==
    /\ ChainDepth = Len(RecoverableFailures)
    /\ ChainDepth = Len(errs)
    /\ ChainDepth <= opts.maxRetries + 1

\* the chain at its full depth, one more than maxRetries
C4_Witness ==
    /\ opts.maxRetries >= 1
    /\ ChainDepth = opts.maxRetries + 1
    /\ Len(RecoverableFailures) = opts.maxRetries + 1

C6_ValidatorFirewall ==
    \A i \in DOMAIN events :
        (events[i].ev = "validator" /\ events[i].name # "SchemaValidationError") =>
            /\ pc = "done"
            /\ outcome = "fatal"
            /\ Len(calls) = events[i].ncalls
            /\ attempt = events[i].at
            /\ \A k \in DOMAIN errs : errs[k].attemptNumber < events[i].at
            /\ i < Len(events)
            /\ events[i + 1].ev = "catch"
            /\ events[i + 1].name # "LlmRetryError"

(***************************************************************************)
(* C7, as stated: the fatal error carries the conversation                 *)
(* sent on the failing attempt and the raw response captured on it (else   *)
(* the thrown error's rawResponse); a thrown LlmFatalError keeps its       *)
(* message and hands its own cause on, so fatal errors are never nested.   *)
(***************************************************************************)
FailingCall == MainCalls[Len(MainCalls)]

CaughtLast == Caught[Len(Caught)].error

C7_FatalContext ==
    outcome = "fatal" =>
        /\ thrown.name = "LlmFatalError"
        /\ FailingCall.attempt = attempt
        /\ thrown.messages = FailingCall.messages
        /\ thrown.rawResponse =
              (IF Truthy(rawResponseForError) THEN rawResponseForError
               ELSE IF Truthy(CaughtLast.rawResponse) THEN CaughtLast.rawResponse
               ELSE Null)
        /\ CaughtLast.name = "LlmFatalError" =>
              /\ thrown.cause = CaughtLast.cause
              /\ thrown.cause.name # "LlmFatalError"

C7_FatalKeepsMessage ==
    /\ C7_FatalContext
    /\ (outcome = "fatal" /\ CaughtLast.name = "LlmFatalError") =>
          thrown.message = CaughtLast.message

(***************************************************************************)
(* C7, amended: as above, except that a thrown LlmFatalError keeps its     *)
(* message only when that message is not empty; an empty message is        *)
(* replaced by "An unexpected error occurred during LLM execution".        *)
(***************************************************************************)
C7_FatalKeepsNonEmptyMessage ==
    /\ C7_FatalContext
    /\ (outcome = "fatal" /\ CaughtLast.name = "LlmFatalError") =>
          thrown.message =
              (IF CaughtLast.message # "" THEN CaughtLast.message
               ELSE "An unexpected error occurred during LLM execution")

\* a LlmFatalError thrown on a retry attempt, after a reply had been captured
C7_Witness ==
    /\ outcome = "fatal"
    /\ attempt >= 1
    /\ CaughtLast.name = "LlmFatalError"
    /\ Truthy(rawResponseForError)
    /\ thrown.rawResponse = rawResponseForError
    /\ Len(thrown.messages) >= 4

(***************************************************************************)
(* C8: with a fallback configured, attempt 0 invokes the primary backend   *)
(* and every attempt n > 0 the fallback (the main loop never invokes the   *)
(* primary again); without one every attempt invokes the primary and the   *)
(* mode stays 'main'.                                                      *)
(***************************************************************************)
C8_FallbackRouting ==
    /\ \A k \in DOMAIN calls :
          calls[k].kind = "main" =>
              calls[k].backend =
                  (IF opts.fallbackPrompt /\ calls[k].attempt > 0
                   THEN "fallbackPrompt" ELSE "prompt")
    /\ ~opts.fallbackPrompt =>
          /\ mode = "main"
          /\ \A k \in DOMAIN errs : errs[k].mode = "main"
          /\ info.mode \in {Undefined, "main"}

\* primary on attempt 0, fallback on attempts 1 and 2
C8_Witness ==
    /\ opts.fallbackPrompt
    /\ Len(MainCalls) = 3
    /\ MainCalls[1].backend = "prompt"
    /\ MainCalls[2].backend = "fallbackPrompt"
    /\ MainCalls[3].backend = "fallbackPrompt"

(***************************************************************************)
(* C9: the mode of an attempt is recorded in every LlmRetryAttemptError    *)
(* and in the LlmRetryResponseInfo of the successful attempt, and it is    *)
(* 'fallback' exactly when that attempt invoked the fallback backend.      *)
(***************************************************************************)
BackendOf(n) == MainCallsOf(n)[1].backend

FirstPromptFailed ==
    \E i \in DOMAIN events :
        /\ events[i].at = 0
        /\ \/ events[i].ev = "reject" /\ events[i].ncalls = 1
           \/ /\ events[i].ev = "catch"
              /\ events[i].error.message \in {"LLM returned no text content.",
                                              "Error Type: JSON_PARSE_ERROR"}

C10_FallbackAfterFailure ==
    (pc = "done" /\ opts.fallbackPrompt /\ opts.maxRetries >= 1 /\ FirstPromptFailed) =>
        \E k \in DOMAIN calls :
            /\ calls[k].kind = "main"
            /\ calls[k].attempt = 1
            /\ calls[k].backend = "fallbackPrompt"

(***************************************************************************)
(* Observations on the JSON pipeline                                       *)
(***************************************************************************)
\* the contents of the messages of a conversation
Contents(messages) == {messages[j].content : j \in 1..Len(messages)}

\* a recoverable failure raised by processResponse: a parse failure or a
\* schema-validation failure
IsJsonFailure(error) ==
    /\ error.name = "LlmRetryError"
    /\ error.message \in {"Error Type: JSON_PARSE_ERROR",
                          "Error Type: SCHEMA_VALIDATION_ERROR"}

\* a text as a conversation can carry it: the text itself, or the
\* re-serialisation of the data parsed from it
AsCarried(content) ==
    {content} \cup
        IF JSONparse(ExtractJsonText(content)).ok
        THEN {JSONstringify(JSONparse(ExtractJsonText(content)).data)}
        ELSE {}

\* the texts of the conversation sent to the fixer
FixerPromptTexts ==
    {"You are an expert at fixing malformed JSON data", "JSON Parse Error",
     "Schema Validation Error"}

\* what the fixer can answer, as a conversation can carry it
FixerOutputTexts == UNION {AsCarried(t) : t \in FixerTexts}

\* the completion is no usable repair: no content, CANNOT_FIX, or text that
\* does not parse
FixerFailed(completion) ==
    \/ ~completion.hasMessage
    \/ completion.content \in {Null, Undefined, "", "CANNOT_FIX"}
    \/ ~JSONparse(completion.content).ok

\* the completion is a repair that parses and validates
FixerSucceeded(completion) ==
    /\ ~FixerFailed(completion)
    /\ Validator(JSONparse(completion.content).data) = "ok"

\* the completion is a text that fails to parse or fails the schema
ReplyFails(completion) ==
    /\ completion.hasMessage
    /\ completion.content \notin {Null, Undefined}
    /\ ExtractJsonText(completion.content) # ""
    /\ \/ ~JSONparse(ExtractJsonText(completion.content)).ok
       \/ Validator(JSONparse(ExtractJsonText(completion.content)).data)
              \in {"schema", "zod"}

(***************************************************************************)
(* C11: the conversation sent on attempt 0 is the initial messages; the    *)
(* conversation sent on an attempt n > 0 is the conversation snapshot of   *)
(* the LlmRetryAttemptError of attempt n - 1, unchanged, followed by one   *)
(* user message whose content is the message of that attempt's             *)
(* LlmRetryError.                                                          *)
(***************************************************************************)
C11_MessageReconstruction ==
    \A i \in 1..Len(calls) :
        calls[i].kind = "main" =>
            IF calls[i].attempt = 0
            THEN calls[i].messages = StartMessages(opts.entry)
            ELSE LET n == calls[i].attempt
                     previous == errs[n]
                     size == Len(previous.conversation)
                 IN  /\ previous.attemptNumber = n - 1
                     /\ previous.error.name = "LlmRetryError"
                     /\ Len(calls[i].messages) = size + 1
                     /\ SubSeq(calls[i].messages, 1, size) = previous.conversation
                     /\ calls[i].messages[size + 1] = Msg("user", previous.error.message)

\* a third attempt was sent, after failures that left an assistant turn in
\* the snapshot
C11_Witness ==
    \E i \in 1..Len(calls) :
        /\ calls[i].kind = "main"
        /\ calls[i].attempt = 2
        /\ Len(calls[i].messages) = 6

(***************************************************************************)
(* C12: in JSON mode, after a parse or schema-validation failure of        *)
(* attempt n that was not repaired, the conversation sent on attempt n + 1 *)
(* is the conversation of attempt n plus two messages: an assistant        *)
(* message carrying the reply of attempt n, then a user message carrying   *)
(* the feedback with the failure kind; when every failure so far was of    *)
(* that kind the conversation of attempt n has length 2 + 2n.              *)
(***************************************************************************)
C12_TwoMessagesPerRetry ==
    (/\ IsJsonEntry(opts.entry)
     /\ pc = "awaitPrompt"
     /\ attempt > 0
     /\ IsJsonFailure(errs[attempt].error))
    => LET prev == MainCallsOf(attempt - 1)[1]
           cur == MainCallsOf(attempt)[1]
           size == Len(prev.messages)
       IN  /\ Len(cur.messages) = size + 2
           /\ SubSeq(cur.messages, 1, size) = prev.messages
           /\ cur.messages[size + 1].role = "assistant"
           /\ replies # <<>>
           /\ calls[replies[1].call] = prev
           /\ cur.messages[size + 1].content \in AsCarried(replies[1].completion.content)
           /\ cur.messages[size + 2] = Msg("user", errs[attempt].error.message)
           /\ (\A k \in 1..attempt : IsJsonFailure(errs[k].error))
                  => Len(cur.messages) = 2 + 2 * attempt

(***************************************************************************)
(* C13: with the fixer enabled, when the first reply fails to parse or     *)
(* fails the schema, the fixer is asked; and when the fixer's answer       *)
(* parses and validates, the call has succeeded on attempt 0 with two      *)
(* backend invocations, one from the loop and one from the fixer, and its  *)
(* result is the data parsed from the fixer's answer.                      *)
(***************************************************************************)
C13_RepairedOnFirstAttempt ==
    (/\ IsJsonEntry(opts.entry)
     /\ ~FixerDisabled
     /\ replies # <<>>
     /\ calls[replies[1].call].attempt = 0
     /\ ReplyFails(replies[1].completion))
    => /\ Len(calls) >= 2
       /\ calls[1].kind = "main"
       /\ calls[2].kind = "fixer"
       /\ (Len(replies) = 2 /\ FixerSucceeded(replies[2].completion))
              => /\ outcome = "success"
                 /\ pc = "done"
                 /\ attempt = 0
                 /\ Len(calls) = 2
                 /\ result = [type |-> "validated",
                              value |-> JSONparse(replies[2].completion.content).data]
                 /\ Validator(result.value) = "ok"

(***************************************************************************)
(* C14: a fixer call is sent a conversation of its own of two messages,    *)
(* system then user; it uses up no attempt of the loop; and neither what   *)
(* the fixer was sent nor what the fixer answered is part of a             *)
(* conversation sent by the loop or of the conversation snapshot of an     *)
(* LlmRetryAttemptError.                                                   *)
(***************************************************************************)
C14_FixerOutsideConversation ==
    /\ \A i \in 1..Len(calls) :
           calls[i].kind = "fixer" =>
               /\ Len(calls[i].messages) = 2
               /\ calls[i].messages[1].role = "system"
               /\ calls[i].messages[2].role = "user"
    /\ \A j \in 1..Len(MainCalls) : MainCalls[j].attempt = j - 1
    /\ Len(errs) <= Len(MainCalls)
    /\ \A i \in 1..Len(calls) :
           calls[i].kind = "main" =>
               Contents(calls[i].messages) \cap (FixerPromptTexts \cup FixerOutputTexts) = {}
    /\ \A k \in 1..Len(errs) :
           Contents(errs[k].conversation) \cap (FixerPromptTexts \cup FixerOutputTexts) = {}

(***************************************************************************)
(* C15: when a fixer call fails, by rejecting or by answering CANNOT_FIX,  *)
(* nothing, or text that does not parse, the exception that reaches the    *)
(* loop is the recoverable parse or schema-validation failure that led to  *)
(* the fixer, and the failed fixer call is no attempt of its own.          *)
(***************************************************************************)
C15_FixerFailuresCollapse ==
    /\ Len(errs) <= Len(MainCalls)
    /\ \A i \in 1..Len(events) :
           (/\ events[i].ev = "catch"
            /\ calls[events[i].ncalls].kind = "fixer"
            /\ \/ /\ i > 1
                  /\ events[i - 1].ev = "reject"
                  /\ events[i - 1].ncalls = events[i].ncalls
               \/ /\ Len(replies) >= 2
                  /\ replies[Len(replies)].call = events[i].ncalls
                  /\ FixerFailed(replies[Len(replies)].completion))
           => IsJsonFailure(events[i].error)

(***************************************************************************)
(* C16: the step that resumes _validateOrFix after its fixer call makes no *)
(* further fixer call and runs the validator at most once more; it ends    *)
(* either with the call returning the validated data parsed from the       *)
(* fixer's answer, or with the first SchemaValidationError (as             *)
(* processResponse wraps it) reaching the loop.                            *)
(***************************************************************************)
C16_ValidateOrFixOutcome ==
    [][pc = "awaitFixValidate" =>
          /\ calls' = calls
          /\ Len(SelectSeq(events', LAMBDA e : e.ev = "validator"))
                 <= Len(SelectSeq(events, LAMBDA e : e.ev = "validator")) + 1
          /\ \/ /\ outcome' = "success"
                /\ result'.type = "validated"
                /\ Validator(result'.value) = "ok"
                /\ result'.value
                       = JSONparse(replies'[Len(replies')].completion.content).data
             \/ /\ Len(events') > Len(events)
                /\ events'[Len(events')].ev = "catch"
                /\ events'[Len(events')].error
                       = WrapValidationError(ValidatorSchemaError, jsonData)]_vars

(***************************************************************************)
(* C17: in JSON mode a reply that is empty, or empty once trimmed, is a    *)
(* recoverable failure of kind JSON_PARSE_ERROR: the attempt is recorded   *)
(* as an LlmRetryAttemptError and the call does not end fatally on it.     *)
(***************************************************************************)
C17_EmptyReplyRecoverable ==
    (/\ IsJsonEntry(opts.entry)
     /\ replies # <<>>
     /\ replies[1].completion.hasMessage
     /\ replies[1].completion.content \notin {Null, Undefined}
     /\ ExtractJsonText(replies[1].completion.content) = "")
    => LET n == calls[replies[1].call].attempt
       IN  /\ Len(errs) > n
           /\ errs[n + 1].attemptNumber = n
           /\ errs[n + 1].error.name = "LlmRetryError"
           /\ errs[n + 1].error.type = "JSON_PARSE_ERROR"

(***************************************************************************)
(* C18: in promptZod a reply that parses but is rejected by the Zod        *)
(* schema is a recoverable failure: the attempt is recorded as an          *)
(* LlmRetryAttemptError whose feedback names SCHEMA_VALIDATION_ERROR, and  *)
(* the call does not end fatally on it.                                    *)
(***************************************************************************)
C18_ZodFailureRecoverable ==
    opts.entry = "promptZod" =>
        \A i \in 1..Len(events) :
            (events[i].ev = "validator" /\ events[i].name = "ZodError")
            => /\ Len(errs) > events[i].at
               /\ errs[events[i].at + 1].attemptNumber = events[i].at
               /\ errs[events[i].at + 1].error.message
                      = "Error Type: SCHEMA_VALIDATION_ERROR"

(***************************************************************************)
(* C19: in text mode a completion without message content is a             *)
(* recoverable failure of kind CUSTOM_ERROR, "LLM returned no text         *)
(* content.": the attempt is recorded as an LlmRetryAttemptError, the next *)
(* attempt, if there is one, ends with a user message carrying that text,  *)
(* and when it was the last attempt of the budget no further call is made. *)
(***************************************************************************)
C19_NoTextIsRecoverable ==
    (/\ ResponseType(opts.entry) = "text"
     /\ replies # <<>>
     /\ replies[1].completion.content \in {Null, Undefined})
    => LET n == calls[replies[1].call].attempt
           next == MainCallsOf(n + 1)
       IN  /\ Len(errs) > n
           /\ errs[n + 1].attemptNumber = n
           /\ errs[n + 1].error.name = "LlmRetryError"
           /\ errs[n + 1].error.type = "CUSTOM_ERROR"
           /\ errs[n + 1].error.message = "LLM returned no text content."
           /\ attempt > n
           /\ next # <<>> =>
                  next[1].messages[Len(next[1].messages)]
                      = Msg("user", "LLM returned no text content.")
           /\ n = opts.maxRetries =>
                  /\ next = <<>>
                  /\ outcome \in {"pending", "exhausted"}
                  /\ outcome = "pending" => ENABLED ThrowExhausted

\* the first completion had no content, and a second attempt was sent
C19_Witness ==
    /\ ResponseType(opts.entry) = "text"
    /\ Len(errs) >= 1
    /\ errs[1].error.message = "LLM returned no text content."
    /\ Len(MainCalls) = 2
    /\ MainCalls[2].messages[Len(MainCalls[2].messages)]
           = Msg("user", "LLM returned no text content.")

(***************************************************************************)
(* C20: a call that leaves maxRetries out runs with maxRetries = 3, so at  *)
(* most 4 calls from the loop, and is exhausted only after 4; a call with  *)
(* maxRetries = 0 makes one call from the loop, and after a recoverable    *)
(* failure of it nothing but LlmRetryExhaustedError follows, with an error *)
(* chain of depth 1.                                                       *)
(***************************************************************************)
C20_DefaultAndZeroRetries ==
    /\ opts.maxRetriesOption = Absent =>
           /\ opts.maxRetries = 3
           /\ Len(MainCalls) <= 4
           /\ outcome = "exhausted" => Len(MainCalls) = 4 /\ ChainDepth = 4
    /\ opts.maxRetriesOption = 0 =>
           /\ Len(MainCalls) <= 1
           /\ pc # "loop" \/ attempt > 0 => Len(MainCalls) = 1
           /\ Len(errs) >= 1 =>
                  /\ Len(MainCalls) = 1
                  /\ ChainDepth = 1
                  /\ outcome \in {"pending", "exhausted"}
                  /\ outcome = "pending" => ENABLED ThrowExhausted /\ ~ENABLED StartAttempt
                  /\ outcome = "exhausted" => thrown.cause = 1

\* a call without maxRetries that used all four attempts
C20_Witness ==
    /\ opts.maxRetriesOption = Absent
    /\ outcome = "exhausted"
    /\ Len(MainCalls) = 4
    /\ ChainDepth = 4

(***************************************************************************)
(* C25: every backend call made by the loop in one logical call, on every  *)
(* attempt and on both backends, receives the options that the call of     *)
(* attempt 0 received, which are the caller's options without maxRetries,  *)
(* validate and messages (and, in JSON mode, without the options of the    *)
(* JSON client, with the response format added); only the messages differ. *)
(***************************************************************************)
C25_OptionsPassThrough ==
    \A i \in 1..Len(calls) :
        calls[i].kind = "main" =>
            /\ calls[i].options = calls[1].options
            /\ {o[1] : o \in calls[i].options}
                   \cap {"maxRetries", "validate", "messages"} = {}
            /\ {<<"model", "m1">>, <<"temperature", "0.2">>} \subseteq calls[i].options
            /\ calls[i].options \ {<<"response_format", "json_object">>}
                   = {<<"model", "m1">>, <<"temperature", "0.2">>}

\* a third attempt sent to the fallback backend with the caller's options
C25_Witness ==
    \E i \in 1..Len(calls) :
        /\ calls[i].kind = "main"
        /\ calls[i].attempt = 2
        /\ calls[i].backend = "fallbackPrompt"
        /\ <<"temperature", "0.2">> \in calls[i].options
        /\ calls[i].messages # calls[1].messages

\* the latest LlmRetryAttemptError, in the state its catch block leaves
JustCaught ==
    /\ pc = "loop"
    /\ errs # <<>>
    /\ lastError = Len(errs)
    /\ attempt = errs[Len(errs)].attemptNumber + 1

LatestError == errs[Len(errs)]

\* the conversation sent on the attempt of the latest LlmRetryAttemptError
SentOnLatest == MainCallsOf(LatestError.attemptNumber)[1].messages

\* the backend answered the main call of that attempt
RepliedOnLatest ==
    /\ replies # <<>>
    /\ calls[replies[1].call].kind = "main"
    /\ calls[replies[1].call].attempt = LatestError.attemptNumber

(***************************************************************************)
(* C22 (as stated): the snapshot of an LlmRetryAttemptError is the         *)
(* conversation sent on its attempt, followed by the assistant's failed    *)
(* reply (its text, the re-serialisation of its data, or the serialised    *)
(* completion when it has no text) whenever the backend replied on that    *)
(* attempt, and by nothing otherwise.                                      *)
(***************************************************************************)
C22_SnapshotEndsWithReply ==
    JustCaught =>
        IF RepliedOnLatest
        THEN \E c \in AsCarried(replies[1].completion.content)
                        \cup {StringifyCompletion(replies[1].completion)} :
                LatestError.conversation = Append(SentOnLatest, Msg("assistant", c))
        ELSE LatestError.conversation = SentOnLatest

(***************************************************************************)
(* C22 (amended): the snapshot is the conversation sent on the attempt,    *)
(* followed by one assistant message carrying the raw response recorded    *)
(* for the failure: the rawResponse of the LlmRetryError when it has one,  *)
(* otherwise the non-empty text content of the backend's reply; when there *)
(* is neither, nothing is appended.                                        *)
(***************************************************************************)
C22_SnapshotEndsWithRawResponse ==
    JustCaught =>
        LET failure == LatestError.error
            text == IF RepliedOnLatest THEN replies[1].completion.content ELSE Null
            recorded == IF Truthy(failure.rawResponse) THEN failure.rawResponse
                        ELSE IF Truthy(text) THEN text
                        ELSE Null
        IN  /\ failure.name = "LlmRetryError"
            /\ LatestError.conversation =
                  IF recorded = Null THEN SentOnLatest
                  ELSE Append(SentOnLatest, Msg("assistant", recorded))
            /\ LatestError.rawResponse = recorded

\* a retry attempt that was answered and failed: its snapshot is one longer
\* than what was sent, and what was sent extends the snapshot before
C22_Witness ==
    /\ JustCaught
    /\ RepliedOnLatest
    /\ LatestError.attemptNumber = 1
    /\ Len(LatestError.conversation) = Len(SentOnLatest) + 1
    /\ LatestError.conversation[Len(SentOnLatest) + 1].role = "assistant"

(***************************************************************************)
(* The loop under the scheduling the claims about termination assume:      *)
(* every pending backend call returns or throws, and the continuation of   *)
(* the call then runs.                                                     *)
(***************************************************************************)
FairSpec == Spec /\ WF_vars(Next)

(***************************************************************************)
(* C26: every logical call reaches an outcome; the outcome is exactly one  *)
(* of success (with the validate hook's result, or the extracted data when *)
(* there is no hook, and nothing thrown), a fatal error, or                *)
(* LlmRetryExhaustedError; and once there is an outcome no backend call is *)
(* made and the outcome does not change.                                   *)
(***************************************************************************)
C26_OneOutcome ==
    /\ <>(outcome # "pending")
    /\ [](outcome \in {"pending", "success", "fatal", "exhausted"})
    /\ []((outcome = "pending") = (result = NoResult /\ thrown = NoError))
    /\ [](outcome = "success" =>
              /\ thrown = NoError
              /\ result.type = IF opts.validate THEN "validated"
                               ELSE ResponseType(opts.entry))
    /\ [](outcome = "fatal" => (result = NoResult /\ thrown.name = "LlmFatalError"))
    /\ [](outcome = "exhausted" =>
              (result = NoResult /\ thrown.name = "LlmRetryExhaustedError"))
    /\ [][outcome # "pending" =>
              (calls' = calls /\ outcome' = outcome /\ result' = result
               /\ thrown' = thrown)]_vars

\* a call that succeeded on its third attempt, after a fixer call
C26_Witness ==
    /\ outcome = "success"
    /\ attempt = 2
    /\ Len(FixerCalls) > 0
    /\ result.type = "validated"

(***************************************************************************)
(* C27: with disableJsonFixer = true no fixer call is made, a call makes   *)
(* at most maxRetries + 1 backend invocations, and every reply that fails  *)
(* to parse or fails the schema is handed to the retry loop as a           *)
(* recoverable failure of its attempt (JSON_PARSE_ERROR or                 *)
(* SCHEMA_VALIDATION_ERROR).                                               *)
(***************************************************************************)
C27_FixerDisabled ==
    (IsJsonEntry(opts.entry) /\ opts.disableJsonFixer) =>
        /\ FixerCalls = <<>>
        /\ Len(calls) <= opts.maxRetries + 1
        /\ \A i \in 1..Len(events) :
              (/\ events[i].ev = "validator"
               /\ events[i].name \in {"SchemaValidationError", "ZodError"})
              => /\ Len(errs) > events[i].at
                 /\ errs[events[i].at + 1].attemptNumber = events[i].at
                 /\ errs[events[i].at + 1].error.message
                        = "Error Type: SCHEMA_VALIDATION_ERROR"
        /\ (/\ replies # <<>>
            /\ Truthy(replies[1].completion.content)
            /\ ExtractJsonText(replies[1].completion.content) # ""
            /\ ~JSONparse(ExtractJsonText(replies[1].completion.content)).ok)
           => LET n == calls[replies[1].call].attempt
              IN  /\ Len(errs) > n
                  /\ errs[n + 1].attemptNumber = n
                  /\ errs[n + 1].error.type = "JSON_PARSE_ERROR"

(***************************************************************************)
(* C21 (as stated): the backend call that opens attempt n > 0 of the       *)
(* attempt loop is made only after a backoff timer of 1000 * 2^(n-1) ms    *)
(* plus a jitter of at most 20% of that.                                   *)
(***************************************************************************)
C21_BackoffBeforeRetry ==
    \A i \in 1..Len(operations) :
        (operations[i].loopAttempt > 0 /\ operations[i].attemptNumber = 0)
        => /\ operations[i].waited >= 1000 * 2 ^ (operations[i].loopAttempt - 1)
           /\ 10 * operations[i].waited
                  <= 12 * 1000 * 2 ^ (operations[i].loopAttempt - 1)

(***************************************************************************)
(* C21 (amended): the backoff belongs to executeWithRetry under prompt.    *)
(* Every request of its attempt k > 0 is made only after a timer of        *)
(* 1000 * 2^(k-1) ms plus a jitter of at most 20% of that has fired, and   *)
(* while that timer runs the request of attempt k has not been made; the   *)
(* request of its attempt 0, which is what each attempt of the attempt     *)
(* loop starts with, is made without a timer.                              *)
(***************************************************************************)
C21_BackoffBeforeTransportRetry ==
    /\ \A i \in 1..Len(operations) :
          LET k == operations[i].attemptNumber
          IN  IF k > 0
              THEN /\ operations[i].waited >= 1000 * 2 ^ (k - 1)
                   /\ 10 * operations[i].waited <= 12 * 1000 * 2 ^ (k - 1)
              ELSE operations[i].waited = 0
    /\ tpc = "sleeping" =>
          /\ attemptNo > 0
          /\ \A i \in 1..Len(operations) :
                ~(/\ operations[i].loopAttempt = loopAttempt
                  /\ operations[i].attemptNumber = attemptNo)

\* the third request of the second attempt of the loop, made after the
\* longest timer the jitter allows
C21_Witness ==
    \E i \in 1..Len(operations) :
        /\ operations[i].loopAttempt = 1
        /\ operations[i].attemptNumber = 2
        /\ operations[i].waited = 2398

(***************************************************************************)
(* C23: once the caller has aborted the signal, no request is made any     *)
(* more, neither by the loop nor by executeWithRetry, and the call does    *)
(* not wait on a timer: the request in flight rejects and the call is      *)
(* over.                                                                   *)
(***************************************************************************)
C23_NoInvocationAfterAbort ==
    /\ \A i \in 1..Len(operations) : ~operations[i].afterAbort
    /\ aborted => tpc \in {"operation", "done"}

\* _parseOrFixJson has run up to its first await or its end
Parsed == parsePc \in {"awaitFix", "done", "again"}

\* the positions of the fences in a text
Fences(text) == {i \in 1..Len(text) : text[i] = "F"}

(***************************************************************************)
(* C28: when the response is valid JSON text, the tolerant parse returns   *)
(* the value a plain JSON.parse of the text returns, without a backend     *)
(* call, and the tolerant parse of the serialization of that value returns *)
(* the value again.                                                        *)
(***************************************************************************)
C28_ValidJsonParsedAsIs ==
    (Parsed /\ ParseJsonText(responseText).ok) =>
        /\ parsePc # "awaitFix"
        /\ fixerRequests = 0
        /\ parseResult = Returns(ParseJsonText(responseText).value)
        /\ parsePc = "again" => reparseResult = parseResult

(***************************************************************************)
(* C29: what is given to JSON.parse is the trimmed response                *)
(* unless the trimmed response begins with a fence; only then is a fence   *)
(* stripped.                                                               *)
(***************************************************************************)
C29_FenceOnlyAtStart ==
    Parsed =>
        LET trimmed == TrimText(responseText)
        IN  (trimmed = <<>> \/ Head(trimmed) # "F") => handedToParser = trimmed

\* the arrays an error or a hook holds
HeldArrays == {attemptErrors[i] : i \in 1..Len(attemptErrors)}
                  \cup {hookInfos[i] : i \in 1..Len(hookInfos)}

(***************************************************************************)
(* C30: no conversation is changed in place.  The caller's array holds     *)
(* what it held when the call was made; the array held by every            *)
(* LlmRetryAttemptError and the array given to every call of the validate  *)
(* hook hold what they held when they were handed over; and the            *)
(* conversation of a retry attempt is an array of its own, the elements of *)
(* the previous error's snapshot followed by the feedback.                 *)
(***************************************************************************)
C30_NoInPlaceMutation ==
    /\ [](heap[callerMessages] \in CallerMessages)
    /\ [][heap'[callerMessages] = heap[callerMessages]]_vars
    /\ [](\A held \in HeldArrays : heap[held.conversation] = held.taken)
    /\ []((heapPc = "awaitPrompt" /\ heapAttempt > 0) =>
             /\ conversationRef # callerMessages
             /\ \A held \in HeldArrays : held.conversation # conversationRef
             /\ heap[conversationRef] =
                   Append(attemptErrors[heapAttempt].taken, Msg("user", "feedback")))

\* the third attempt is under way, built on two snapshots, and the hook
\* has seen two conversations
C30_Witness ==
    /\ heapPc = "awaitPrompt"
    /\ heapAttempt = 2
    /\ Len(attemptErrors) = 2
    /\ Len(hookInfos) = 2
    /\ Len(heap[conversationRef]) = Len(heap[callerMessages]) + 4

C36_FixerOnPrimary ==
    \A i \in 1..Len(calls) :
        /\ calls[i].kind = "fixer" => calls[i].backend = "prompt"
        /\ calls[i].backend = "fallbackPrompt" =>
               /\ calls[i].kind = "main"
               /\ calls[i].messages[1].content # FixerMessages("x")[1].content

\* a fixer call made during an attempt whose main call went to the fallback
C36_Witness ==
    \E i, j \in 1..Len(calls) :
        /\ i < j
        /\ calls[i].kind = "main" /\ calls[i].backend = "fallbackPrompt"
        /\ calls[j].kind = "fixer" /\ calls[j].attempt = calls[i].attempt
        /\ calls[j].backend = "prompt"

\* the fixer calls of attempt n whose conversation reports the given error
FixerCallsOf(n, errorDetails) ==
    SelectSeq(calls, LAMBDA c : /\ c.kind = "fixer"
                                /\ c.attempt = n
                                /\ c.messages = FixerMessages(errorDetails))

(***************************************************************************)
(* C35: with the fixer enabled, one attempt of the main loop makes at most *)
(* one fixer call for a parse failure and at most one for a schema         *)
(* failure, and no other fixer call, so that one call of promptJson        *)
(* invokes the backends at most 3 * (maxRetries + 1) times.                *)
(***************************************************************************)
C35_FixerCallsBounded ==
    /\ \A n \in 0..opts.maxRetries :
          /\ Len(FixerCallsOf(n, "JSON Parse Error")) <= 1
          /\ Len(FixerCallsOf(n, "Schema Validation Error")) <= 1
          /\ Len(SelectSeq(FixerCalls, LAMBDA c : c.attempt = n)) =
                 Len(FixerCallsOf(n, "JSON Parse Error"))
                 + Len(FixerCallsOf(n, "Schema Validation Error"))
    /\ Len(calls) <= 3 * (opts.maxRetries + 1)

\* a call that used all 3 * (maxRetries + 1) invocations, retries included
C35_Witness ==
    /\ ~FixerDisabled
    /\ opts.maxRetries > 0
    /\ Len(calls) = 3 * (opts.maxRetries + 1)
    /\ Len(FixerCallsOf(1, "JSON Parse Error")) = 1
    /\ Len(FixerCallsOf(1, "Schema Validation Error")) = 1

(***************************************************************************)
(* C37: the two assertions of constructLlmMessages never fire: whenever    *)
(* the loop is about to start an attempt n > 0, the previous error is      *)
(* there, it is the LlmRetryAttemptError of attempt n - 1, and the error   *)
(* it wraps is a LlmRetryError.                                            *)
(***************************************************************************)
C37_AssertionsHold ==
    /\ outcome # "error"
    /\ (pc = "loop" /\ attempt > 0 /\ LoopCondition(attempt)) =>
          /\ lastError # 0
          /\ errs[lastError].name = "LlmRetryAttemptError"
          /\ errs[lastError].attemptNumber = attempt - 1
          /\ errs[lastError].error.name = "LlmRetryError"
          /\ constructLlmMessages(StartMessages(opts.entry), attempt,
                                  lastError).throws = Undefined

\* the loop about to start its second retry
C37_Witness ==
    /\ pc = "loop" /\ attempt = 2 /\ LoopCondition(attempt)
    /\ errs[lastError].attemptNumber = 1

\* the contents that end with, or are, the schema instructions
Instructed ==
    {commonPromptFooter}
        \cup {TemplateString(content) \o "\n" \o commonPromptFooter :
                 content \in {"sys", "sys2", "task", ContentParts}}

(***************************************************************************)
(* C38: in every conversation promptJson sends, exactly one message        *)
(* carries the schema instructions: the caller's first system message with *)
(* the instructions appended, or a system message prepended when the       *)
(* caller gave none.  The caller's other messages are there with their     *)
(* content, in their order; the conversation of attempt 0 holds nothing    *)
(* else, and a retry adds messages without the instructions.               *)
(***************************************************************************)
C38_SchemaInstructionsOnce ==
    (heapEntry = "promptJson" /\ heapPc = "awaitPrompt") =>
        LET original == heap[callerMessages]
            sent == heap[conversationRef]
            k == SystemMessageIndex(original)
            n == IF k = 0 THEN Len(original) + 1 ELSE Len(original)
        IN  /\ Len(sent) >= n
            /\ heapAttempt = 0 => Len(sent) = n
            /\ Cardinality({i \in 1..Len(sent) : sent[i].content \in Instructed}) = 1
            /\ IF k = 0
               THEN /\ sent[1] = Msg("system", commonPromptFooter)
                    /\ \A i \in 1..Len(original) : sent[i + 1] = original[i]
               ELSE /\ sent[k] = Msg("system", TemplateString(original[k].content)
                                               \o "\n" \o commonPromptFooter)
                    /\ \A i \in 1..Len(original) : i # k => sent[i] = original[i]

\* a retry of promptJson under way for a caller whose first system message
\* is not the first message
C38_Witness ==
    /\ heapEntry = "promptJson"
    /\ heapPc = "awaitPrompt"
    /\ heapAttempt = 1
    /\ SystemMessageIndex(heap[callerMessages]) = 2
    /\ heap[conversationRef][2].content = "sys" \o "\n" \o commonPromptFooter

\* the outcomes validateAndProcess resolved with, in order
Outcomes == [i \in 1..Len(validations) |-> validations[i].outcome]

(***************************************************************************)
(* C31: executeWithRetry invokes the operation at most maxRetries + 1      *)
(* times, one attempt after the other; as soon as validateAndProcess       *)
(* resolves with a valid outcome it returns that outcome's data; in every  *)
(* other case it ends by throwing; and for maxRetries >= 0 it never throws *)
(* 'Exited retry loop unexpectedly'.                                       *)
(***************************************************************************)
C31_FirstValidAttemptReturned ==
    /\ maxRetriesArg >= 0 => Len(invocations) <= maxRetriesArg + 1
    /\ \A i \in 1..Len(invocations) : invocations[i].attemptNumber = i - 1
    /\ \A i \in 1..Len(Outcomes) :
          Outcomes[i].isValid =>
              /\ i = Len(Outcomes)
              /\ retryOutcome.kind = "returned"
              /\ retryOutcome.data = Outcomes[i].data
              /\ retryOutcome.data = DataOf(validations[i].attemptNumber)
    /\ retryPc = "done" =>
          /\ retryOutcome.kind \in {"returned", "threw"}
          /\ retryOutcome.kind = "returned" => Outcomes[Len(Outcomes)].isValid
    /\ maxRetriesArg >= 0 =>
          retryOutcome.message # "Exited retry loop unexpectedly"

(***************************************************************************)
(* C31 (amended): an attempt succeeds when its outcome is valid and        *)
(* carries data other than undefined.  executeWithRetry invokes the        *)
(* operation at most maxRetries + 1 times, one attempt after the other; as *)
(* soon as validateAndProcess resolves with such an outcome it returns     *)
(* that data; a valid outcome without data is handled like an invalid one; *)
(* in every other case it ends by throwing; and for maxRetries >= 0 it     *)
(* never throws 'Exited retry loop unexpectedly'.                          *)
(***************************************************************************)
C31_FirstAttemptWithDataReturned ==
    /\ maxRetriesArg >= 0 => Len(invocations) <= maxRetriesArg + 1
    /\ \A i \in 1..Len(invocations) : invocations[i].attemptNumber = i - 1
    /\ \A i \in 1..Len(Outcomes) :
          (Outcomes[i].isValid /\ Outcomes[i].data.defined) =>
              /\ i = Len(Outcomes)
              /\ retryOutcome.kind = "returned"
              /\ retryOutcome.data = Outcomes[i].data
              /\ retryOutcome.data = DataOf(validations[i].attemptNumber)
    /\ retryPc = "done" =>
          /\ retryOutcome.kind \in {"returned", "threw"}
          /\ retryOutcome.kind = "returned" =>
                /\ Outcomes[Len(Outcomes)].isValid
                /\ Outcomes[Len(Outcomes)].data.defined
    /\ maxRetriesArg >= 0 =>
          retryOutcome.message # "Exited retry loop unexpectedly"

\* maxRetries = 2: the third invocation is the first to succeed, after a
\* rejected one and a valid outcome without data
C31_Witness ==
    /\ maxRetriesArg = 2
    /\ Len(invocations) = 3
    /\ invocations[1].result = "rejected"
    /\ Len(Outcomes) = 2
    /\ Outcomes[1].isValid /\ ~Outcomes[1].data.defined
    /\ retryOutcome.kind = "returned"
    /\ retryOutcome.data = DataOf(2)

(***************************************************************************)
(* C32: an outcome with isValid = false and isCriticalFailure = true ends  *)
(* the call on that attempt: executeWithRetry throws 'Critical failure     *)
(* encountered' carrying that attempt's number, and the operation is not   *)
(* invoked again, whatever number of attempts is left.                     *)
(***************************************************************************)
C32_CriticalFailureStops ==
    \A i \in 1..Len(Outcomes) :
        (~Outcomes[i].isValid /\ Outcomes[i].isCriticalFailure) =>
            /\ i = Len(Outcomes)
            /\ retryPc = "done"
            /\ retryOutcome.kind = "threw"
            /\ retryOutcome.message = "Critical failure encountered on attempt"
            /\ retryOutcome.attemptNumber = validations[i].attemptNumber
            /\ invocations[Len(invocations)].attemptNumber = validations[i].attemptNumber

\* a critical failure on the first of three attempts
C32_Witness ==
    /\ maxRetriesArg = 2
    /\ Len(Outcomes) = 1
    /\ ~Outcomes[1].isValid /\ Outcomes[1].isCriticalFailure
    /\ Len(invocations) = 1
    /\ retryPc = "done"

(***************************************************************************)
(* C33: when the API rejects a request of prompt with status 401 or code   *)
(* invalid_api_key, that request is the only one prompt makes: no timer,   *)
(* no further invocation, and prompt rejects with that error.              *)
(***************************************************************************)
C33_AuthErrorNotRetried ==
    fifthArgument =>
        \A i \in 1..Len(invocations) :
            (invocations[i].result = "rejected"
             /\ ~shouldRetryError(invocations[i].error)) =>
                /\ Len(invocations) = 1
                /\ retryPc = "done"
                /\ retryOutcome.kind = "threw"
                /\ retryOutcome.message = invocations[i].error.message

\* the calls in which the hook threw something other than a
\* SchemaValidationError
HookExceptions ==
    SelectSeq(hookCalls, LAMBDA c : c.threw \in {"Error", "LlmRetryError"})

(***************************************************************************)
(* C34: an exception of the beforeValidation hook puts the attempt in the  *)
(* same failure class whichever pass it is thrown in: the exception leaves *)
(* _validateOrFix as it is, so that a LlmRetryError makes the attempt      *)
(* recoverable and any other error makes the call fatal, during the repair *)
(* pass as during the initial pass.                                        *)
(***************************************************************************)
C34_HookExceptionSameClass ==
    \A i \in 1..Len(HookExceptions) :
        /\ validateOutcome.kind = "threw"
        /\ validateOutcome.class = FailureClass(HookExceptions[i].threw)
        /\ HookExceptions[i].pass = "initial" =>
               validateOutcome.error =
                   Exception(HookExceptions[i].threw, "beforeValidation")

\* the messages of an array that are not system messages
NonSystem(messages) == SelectSeq(messages, LAMBDA m : m.role # "system")

\* the call was made with more characters than the limit allows
OverLimit == TotalChars(NonSystem(truncInput)) > truncLimit

(***************************************************************************)
(* C39: for every array of messages and every limit >= 0, the non-system   *)
(* messages of the array truncateMessages returns count at most limit      *)
(* characters.  An array within the limit is returned as it is.  Otherwise *)
(* the first system message is returned as it was, no returned message     *)
(* counts zero characters, and the first non-system message is cut only    *)
(* when nothing is left of the messages after it.                          *)
(***************************************************************************)
C39_TruncatedWithinLimit ==
    truncPc = "returned" =>
        LET othersIn == NonSystem(truncInput)
            othersOut == NonSystem(truncResult)
            systemsIn == SelectSeq(truncInput, LAMBDA m : m.role = "system")
            systemsOut == SelectSeq(truncResult, LAMBDA m : m.role = "system")
        IN  /\ TotalChars(othersOut) <= truncLimit
            /\ ~OverLimit => truncResult = truncInput
            /\ systemsIn # <<>> =>
                  /\ systemsOut # <<>>
                  /\ Head(systemsOut) = Head(systemsIn)
            /\ \A i \in 1..Len(systemsOut) :
                  \E j \in 1..Len(systemsIn) : systemsOut[i] = systemsIn[j]
            /\ OverLimit =>
                  /\ \A i \in 1..Len(othersOut) : countChars(othersOut[i]) > 0
                  /\ Len(othersOut) <= Len(othersIn)
                  /\ countChars(othersIn[1]) > 0 =>
                        \/ /\ othersOut # <<>>
                           /\ othersOut[1] = othersIn[1]
                        \/ /\ Len(othersOut) <= 1
                           /\ TotalChars(othersOut) < countChars(othersIn[1])

\* four characters over the limit: the text of the second message is cut
\* to 16 characters, suffix included, the first message and the system
\* message are left alone
C39_Witness ==
    /\ truncPc = "returned"
    /\ truncLimit = 19
    /\ truncInput = <<Msg("system", StringContent(TextOf(20))),
                      Msg("user", StringContent(TextOf(3))),
                      Msg("user", StringContent(TextOf(20)))>>
    /\ truncResult = <<Msg("system", StringContent(TextOf(20))),
                       Msg("user", StringContent(TextOf(3))),
                       Msg("user", StringContent(SubSeq(TextOf(20), 1, 2)
                                                 \o TRUNCATION_SUFFIX))>>

====
